---- MODULE Spec2Model ----
(***************************************************************************)
(* A model of the sitemap generator: the URL collection of buildUrls       *)
(* (src/src/lib/url-builder.js), the helpers of src/src/lib/utils.js, the  *)
(* writers of src/src/lib/sitemap-writer.js and the pipeline of run (the   *)
(* second half of src/src/lib/html-parser.js).                             *)
(*                                                                         *)
(* Strings are sequences of one-character strings, so that prefix tests,   *)
(* regular expressions, extensions and number parsing are computed on the  *)
(* characters as the code computes them.                                   *)
(***************************************************************************)
EXTENDS Integers, Sequences, FiniteSets, TLC

(***************************************************************************)
(* Bounds of the model.                                                    *)
(***************************************************************************)
\* the most files the glob returns in one run
MaxFiles == 2
\* the largest value drawn for the discovery cap, the total cap and the
\* per-file limit
MaxCap == 2
\* the chunking loop is cut after this many chunks (it only matters when the
\* per-file limit is 0 and the loop never advances)
MaxChunks == 6

(***************************************************************************)
(* Characters and strings.                                                 *)
(***************************************************************************)
\* an absent optional value (undefined, null or the empty string); a present
\* one is a non-empty sequence
NoVal == <<>>

ToLower(c) ==
  CASE c = "X" -> "x"
    [] c = "M" -> "m"
    [] c = "L" -> "l"
    [] c = "H" -> "h"
    [] c = "T" -> "t"
    [] c = "P" -> "p"
    [] c = "A" -> "a"
    [] OTHER -> c

Lower(s) == [i \in 1..Len(s) |-> ToLower(s[i])]

StartsWith(s, p) == Len(s) >= Len(p) /\ SubSeq(s, 1, Len(p)) = p

EndsWith(s, p) == Len(s) >= Len(p) /\ SubSeq(s, Len(s) - Len(p) + 1, Len(s)) = p

Drop(s, n) == SubSeq(s, n + 1, Len(s))

\* String.prototype.includes
Includes(s, p) == \E i \in 0..(Len(s) - Len(p)) : SubSeq(s, i + 1, i + Len(p)) = p

\* the positions of character c in s
Positions(s, c) == {i \in 1..Len(s) : s[i] = c}

SetMax(S) == CHOOSE x \in S : \A y \in S : y <= x

SetMin(S) == CHOOSE x \in S : \A y \in S : x <= y

\* /^https?:\/\//i.test(s)
IsHttpUrl(s) ==
  \/ StartsWith(Lower(s), <<"h", "t", "t", "p", ":", "/", "/">>)
  \/ StartsWith(Lower(s), <<"h", "t", "t", "p", "s", ":", "/", "/">>)

\* path.basename, for a path or a URL pathname
BaseName(p) ==
  IF Positions(p, "/") = {} THEN p ELSE Drop(p, SetMax(Positions(p, "/")))

\* path.extname(f).toLowerCase(): from the last dot of the base name, when
\* that dot is not its first character
ExtName(f) ==
  LET b == BaseName(f)
      dots == Positions(b, ".") \ {1}
  IN IF dots = {} THEN <<>> ELSE Lower(Drop(b, SetMax(dots) - 1))

(***************************************************************************)
(* Paths and URLs (src/src/lib/utils.js).                                  *)
(***************************************************************************)
\* the segments of a path: the pieces between its "/" characters
RECURSIVE Segments(_)
Segments(p) ==
  IF Positions(p, "/") = {} THEN <<p>>
  ELSE LET k == SetMin(Positions(p, "/"))
       IN <<SubSeq(p, 1, k - 1)>> \o Segments(Drop(p, k))

RECURSIVE JoinSegs(_)
JoinSegs(segs) ==
  IF segs = <<>> THEN <<>>
  ELSE IF Len(segs) = 1 THEN segs[1]
  ELSE segs[1] \o <<"/">> \o JoinSegs(Tail(segs))

\* "." and empty segments dropped, ".." removing the segment before it; with
\* keepUp a ".." that has nothing before it is kept (path.join, path.relative),
\* without it it is dropped (the URL parser at the root)
RECURSIVE NormSegs(_, _, _)
NormSegs(segs, acc, keepUp) ==
  IF segs = <<>> THEN acc
  ELSE LET s == Head(segs)
           up == <<".", ".">>
       IN IF s = <<>> \/ s = <<".">> THEN NormSegs(Tail(segs), acc, keepUp)
          ELSE IF s = up
          THEN IF acc # <<>> /\ acc[Len(acc)] # up
               THEN NormSegs(Tail(segs), SubSeq(acc, 1, Len(acc) - 1), keepUp)
               ELSE IF keepUp THEN NormSegs(Tail(segs), Append(acc, s), keepUp)
               ELSE NormSegs(Tail(segs), acc, keepUp)
          ELSE NormSegs(Tail(segs), Append(acc, s), keepUp)

\* path.relative(publicDir, path.join(publicDir, rel)): the normalized path
\* below (or, with leading ".." segments, outside) the public directory
JoinRelative(rel) == JoinSegs(NormSegs(Segments(rel), <<>>, TRUE))

\* the scheme and host of an absolute URL: what precedes its third "/"
OriginOf(u) ==
  LET sl == Positions(u, "/")
      third == {i \in sl : Cardinality({j \in sl : j < i}) = 2}
  IN IF third = {} THEN u ELSE SubSeq(u, 1, SetMin(third) - 1)

\* the path of an absolute URL, "/" when it has none
PathOf(u) == IF OriginOf(u) = u THEN <<"/">> ELSE Drop(u, Len(OriginOf(u)))

\* the path with its dot segments removed, as new URL() serializes it
UrlPath(p) ==
  LET segs == NormSegs(Segments(p), <<>>, FALSE)
      dir == p # <<>> /\ p[Len(p)] = "/"
  IN <<"/">> \o JoinSegs(segs) \o (IF dir /\ segs # <<>> THEN <<"/">> ELSE <<>>)

\* normalizeUrl(base, rel): new URL(rel.replace(/^\./, ''), base + '/')
normalizeUrl(base, rel) ==
  LET b == IF EndsWith(base, <<"/">>) THEN base ELSE base \o <<"/">>
      r == IF StartsWith(rel, <<".">>) THEN Drop(rel, 1) ELSE rel
  IN IF StartsWith(r, <<"/">>)
     THEN OriginOf(b) \o UrlPath(r)
     ELSE OriginOf(b) \o UrlPath(PathOf(b) \o r)

\* normalizePathToUrl(baseUrl, publicDir, path.join(publicDir, rel)) for a
\* path rel given relative to the public directory (POSIX paths)
normalizePathToUrl(baseUrl, rel) == normalizeUrl(baseUrl, <<"/">> \o JoinRelative(rel))

\* href.replace(/^\//, '')
StripSlash(href) == IF StartsWith(href, <<"/">>) THEN Drop(href, 1) ELSE href

(***************************************************************************)
(* Regular expressions built from exclude_urls entries                     *)
(* (url-builder.js 243-247, html-parser.js 467-471).  Of the characters of *)
(* the model, "*" (replaced by ".*"), "?" and "." (any one character) and  *)
(* "+" (one or more of the preceding atom) mean something to the regular   *)
(* expression engine; every other character of the model stands for        *)
(* itself.                                                                 *)
(***************************************************************************)
Tok(any, ch, quant) == [any |-> any, ch |-> ch, quant |-> quant]

\* new RegExp('^' + entry.replace(/\*/g, '.*').replace(/\?/g, '.') + '$'):
\* the atoms of the expression, or ok = FALSE where the constructor throws a
\* SyntaxError (a "+" with nothing to repeat)
RECURSIVE CompileFrom(_, _)
CompileFrom(p, acc) ==
  IF p = <<>> THEN [ok |-> TRUE, toks |-> acc]
  ELSE LET c == Head(p)
       IN IF c = "*" THEN CompileFrom(Tail(p), Append(acc, Tok(TRUE, "", "star")))
          ELSE IF c = "?" \/ c = "." THEN CompileFrom(Tail(p), Append(acc, Tok(TRUE, "", "one")))
          ELSE IF c = "+"
          THEN IF acc # <<>> /\ acc[Len(acc)].quant = "one"
               THEN CompileFrom(Tail(p), [acc EXCEPT ![Len(acc)].quant = "plus"])
               ELSE [ok |-> FALSE, toks |-> <<>>]
          ELSE CompileFrom(Tail(p), Append(acc, Tok(FALSE, c, "one")))

ExcludeRegex(entry) == CompileFrom(entry, <<>>)

Fits(t, c) == t.any \/ t.ch = c

\* the anchored match of the atoms against the whole of s
RECURSIVE MatchToks(_, _)
MatchToks(toks, s) ==
  IF toks = <<>> THEN s = <<>>
  ELSE LET t == Head(toks)
       IN CASE t.quant = "one" ->
                 s # <<>> /\ Fits(t, Head(s)) /\ MatchToks(Tail(toks), Tail(s))
            [] t.quant = "star" ->
                 \/ MatchToks(Tail(toks), s)
                 \/ s # <<>> /\ Fits(t, Head(s)) /\ MatchToks(toks, Tail(s))
            [] OTHER ->
                 s # <<>> /\ Fits(t, Head(s))
                   /\ MatchToks(<<[t EXCEPT !.quant = "star"]>> \o Tail(toks), Tail(s))

\* regex.test(url); only used where the expression compiles
RegexTest(entry, url) == MatchToks(ExcludeRegex(entry).toks, url)

IsWildcard(entry) == Positions(entry, "*") # {} \/ Positions(entry, "?") # {}

(***************************************************************************)
(* Numbers read from text.  A number is kept in hundredths; the priority   *)
(* inputs of the model carry at most two fraction digits, no exponent and  *)
(* no surrounding white space.                                             *)
(***************************************************************************)
IsDigit(c) == c \in {"0", "1", "2", "3", "4", "5", "6", "7", "8", "9"}

DigitVal(c) ==
  CASE c = "0" -> 0 [] c = "1" -> 1 [] c = "2" -> 2 [] c = "3" -> 3 [] c = "4" -> 4
    [] c = "5" -> 5 [] c = "6" -> 6 [] c = "7" -> 7 [] c = "8" -> 8 [] OTHER -> 9

\* the length of the longest prefix of s made of digits
RECURSIVE DigitRun(_)
DigitRun(s) == IF s # <<>> /\ IsDigit(Head(s)) THEN 1 + DigitRun(Tail(s)) ELSE 0

RECURSIVE DigitsValue(_, _)
DigitsValue(s, acc) ==
  IF s = <<>> THEN acc ELSE DigitsValue(Tail(s), 10 * acc + DigitVal(Head(s)))

NaN == [nan |-> TRUE, v |-> 0, used |-> 0]

\* the longest prefix of s that is a decimal literal: its value in hundredths
\* and the number of characters used, or NaN when there is none
ScanDecimal(s) ==
  LET neg == s # <<>> /\ Head(s) = "-"
      signed == s # <<>> /\ Head(s) \in {"-", "+"}
      body == IF signed THEN Tail(s) ELSE s
      ni == DigitRun(body)
      rest == Drop(body, ni)
      dot == rest # <<>> /\ Head(rest) = "."
      nf == IF dot THEN DigitRun(Tail(rest)) ELSE 0
      int == DigitsValue(SubSeq(body, 1, ni), 0)
      fr == SubSeq(rest, 2, 1 + nf)
      hundredths ==
        IF nf = 0 THEN 0
        ELSE IF nf = 1 THEN 10 * DigitVal(fr[1])
        ELSE 10 * DigitVal(fr[1]) + DigitVal(fr[2])
      mag == 100 * int + hundredths
  IN IF ni + nf = 0 THEN NaN
     ELSE [nan |-> FALSE,
           v |-> IF neg THEN 0 - mag ELSE mag,
           used |-> (IF signed THEN 1 ELSE 0) + ni + (IF dot THEN 1 + nf ELSE 0)]

\* parseFloat(s): the value of the longest numeric prefix
parseFloat(s) == [ScanDecimal(s) EXCEPT !.used = 0]

\* Number(s): the value of s when the whole of s is a numeric literal
ToNumber(s) ==
  LET r == ScanDecimal(s)
  IN IF s = <<>> THEN [nan |-> FALSE, v |-> 0, used |-> 0]
     ELSE IF r.nan \/ r.used # Len(s) THEN NaN
     ELSE [r EXCEPT !.used = 0]

(***************************************************************************)
(* The state.  cfg and site are the inputs of a run: the action's inputs   *)
(* and test overrides, and the public directory as the run finds it.  The  *)
(* other variables are the position of run, the clock, the locals of       *)
(* buildUrls and run, and the output directory.                            *)
(***************************************************************************)
VARIABLES
  cfg,            \* the inputs read through core.getInput and process.env
  site,           \* files: what glob.sync returns; page: the HTML of each file
  pc,             \* the position of run
  now,            \* the clock reading of this run (new Date())
  runNo,          \* 1 for the first run on this input, 2 for the second
  idx,            \* buildUrls: the index of the next file of the walk
  items,          \* buildUrls: items
  discoveredSet,  \* buildUrls: discoveredSet, in insertion order
  skippedCount,   \* buildUrls: skippedCount
  urls,           \* run: urls, the list buildUrls returned
  chunks,         \* run: chunks
  ci,             \* run: the index i of the chunking loop
  fs,             \* the output directory: path -> document
  log,            \* the writes of this run, in order
  failed,         \* the core.setFailed reports of this run, in order
  prev,           \* the output directory as the previous run left it
  report,         \* the validation findings of this run, in order
  subject,        \* a document handed to the validators directly, with its options
  found,          \* the results the validators returned for subject
  errors,         \* the core.error messages of this run, in order
  handed          \* the documents this run handed to a validator, in order

vars == <<cfg, site, pc, now, runNo, idx, items, discoveredSet, skippedCount,
          urls, chunks, ci, fs, log, failed, prev, report, subject, found, errors, handed>>

(***************************************************************************)
(* The texts of the model.                                                 *)
(***************************************************************************)
sHttp == <<"h", "t", "t", "p", ":", "/", "/">>
\* a site URL without a path, as in site_url: 'http://e'
sBase == sHttp \o <<"e">>
sHtml == <<".", "h", "t", "m", "l">>
sHtm == <<".", "h", "t", "m">>
sMap == <<".", "m", "a", "p">>
sXml == <<".", "x", "m", "l">>
sTxt == <<".", "t", "x", "t">>
sGz == <<".", "g", "z">>
sZip == <<".", "z", "i", "p">>
fileA == <<"a">> \o sHtml
fileB == <<"b">> \o sHtml
fileC == <<"c">> \o sHtml
\* the pages of the public directory, in the order glob.sync lists them
AllFiles == <<fileA, fileB, fileC>>
\* a page in a subdirectory and two source maps
fileSub == <<"d", "/">> \o fileB
fileMap == <<"m">> \o sMap
fileMapUpper == <<"n", ".", "M", "A", "P">>
\* every regular file of the public directory
DirFiles == AllFiles \o <<fileSub, fileMap, fileMapUpper>>
urlA == sBase \o <<"/">> \o fileA
urlB == sBase \o <<"/">> \o fileB
urlC == sBase \o <<"/">> \o fileC
\* a canonical URL that is no file's path-derived URL
urlHome == sBase \o <<"/", "h">>
\* manual URLs
urlManual == sBase \o <<"/", "m">>
urlPlus == sBase \o <<"/", "c", "+", "d">>
DEFAULT_SITEMAP_FILENAME == <<"s">> \o sXml
sIndexName == <<"s", "-", "i">> \o sXml

DigitChars == <<"0", "1", "2", "3", "4", "5", "6", "7", "8", "9">>
\* the decimal digits of a number below 100
NumText(n) == IF n < 10 THEN <<DigitChars[n + 1]>>
              ELSE <<DigitChars[(n \div 10) + 1], DigitChars[(n % 10) + 1]>>
\* new Date(t).toISOString()
Iso(t) == <<"T">> \o NumText(t)

\* fs.statSync(f).mtime of a regular file: its place in the directory
Mtime(f) == CHOOSE i \in 1..Len(DirFiles) : DirFiles[i] = f

\* utils.js 133-149: getGitLastCommitISO, null when git knows no commit of the
\* file (or cannot be run)
getGitLastCommitISO(f) ==
  IF f \in site.committed THEN <<"G">> \o NumText(Mtime(f)) ELSE NoVal

(***************************************************************************)
(* buildUrls (src/src/lib/url-builder.js).                                 *)
(***************************************************************************)
\* an item's priority: undefined, the result of Number(priority) on a walked
\* item, or the input text itself on a manual or discovered item
PrioNone == [kind |-> "undefined", v |-> 0, text |-> <<>>]
PrioNumber(r) == [kind |-> IF r.nan THEN "NaN" ELSE "number", v |-> r.v, text |-> <<>>]
PrioText(t) == IF t = NoVal THEN PrioNone ELSE [kind |-> "string", v |-> 0, text |-> t]

\* src records the phase that pushed the item; the code keeps no such field
Item(url, lastmod, changefreq, priority, src) ==
  [url |-> url, lastmod |-> lastmod, changefreq |-> changefreq,
   priority |-> priority, src |-> src]

\* run 255-272: the priority handed to buildUrls
ConfiguredPriority == cfg.priorityInput

\* every strategy treated as "current"
LastmodCurrent(f) == Iso(now)

\* 157-165: the lastmod of a walked file whose stat succeeded
Lastmod(f) ==
  CASE cfg.lastmodStrategy = "filemtime" -> Iso(Mtime(f))
    [] cfg.lastmodStrategy = "git" ->
         IF getGitLastCommitISO(f) # NoVal THEN getGitLastCommitISO(f) ELSE Iso(Mtime(f))
    [] cfg.lastmodStrategy = "current" -> Iso(now)
    [] OTHER -> NoVal

\* 103: fs.statSync(fullFsPath) throws
StatThrows(f) == f \in site.statFails

\* 107-108: fs.readFileSync or parseHtml throws
ReadThrows(f) == f \in site.readFails

\* 105: the file is read and parsed
IsParsed(f) == cfg.parseCanonical /\ ExtName(f) \in {sHtml, sHtm}

\* the canonical link ignored: the path-derived URL of the file
PathUrlOnly(f) == normalizeUrl(cfg.siteUrl, <<"/">> \o f)

\* 105-124: the URL of a walked file
CanonicalOrPathUrl(f) ==
  LET pathUrl == normalizeUrl(cfg.siteUrl, <<"/">> \o f)
      href == site.page[f].canonical
  IN IF cfg.parseCanonical /\ ExtName(f) \in {sHtml, sHtm} /\ href # NoVal
     THEN IF IsHttpUrl(href) THEN href
          ELSE normalizePathToUrl(cfg.siteUrl, StripSlash(href))
     ELSE pathUrl

\* the canonical link taken although the file could not be read
FileUrlNoCatch(f) == CanonicalOrPathUrl(f)

\* 96-124, 153-155, 167-169: the URL of the item: the path-derived URL when
\* the stat or the read of the file throws
FileUrl(f) ==
  IF StatThrows(f) \/ (IsParsed(f) /\ ReadThrows(f))
  THEN normalizeUrl(cfg.siteUrl, <<"/">> \o f)
  ELSE CanonicalOrPathUrl(f)

\* 96-174: the item pushed for a walked file
WalkedItem(f) ==
  Item(FileUrl(f), IF StatThrows(f) THEN NoVal ELSE Lastmod(f), cfg.changefreq,
       IF ConfiguredPriority # NoVal THEN PrioNumber(ToNumber(ConfiguredPriority))
       ELSE PrioNone,
       "walked")

\* 140: fs.existsSync(targetFs) && fs.statSync(targetFs).isFile()
IsRegularFile(rel) == \E i \in 1..Len(DirFiles) : DirFiles[i] = rel

\* the anchor loop without the check of the discovery cap
RECURSIVE DiscoverAnchorsNoCap(_, _)
DiscoverAnchorsNoCap(anchors, set) ==
  IF anchors = <<>> THEN set
  ELSE LET hrefA == Head(anchors)
           target == JoinRelative(StripSlash(hrefA))
           targetUrl == normalizePathToUrl(cfg.siteUrl, target)
       IN IF hrefA = NoVal \/ IsHttpUrl(hrefA) \/ StartsWith(hrefA, <<"#">>)
          THEN DiscoverAnchorsNoCap(Tail(anchors), set)
          ELSE IF IsRegularFile(target) /\ \A k \in 1..Len(set) : set[k] # targetUrl
          THEN DiscoverAnchorsNoCap(Tail(anchors), Append(set, targetUrl))
          ELSE DiscoverAnchorsNoCap(Tail(anchors), set)

\* 128-151: the anchor loop of one file, from the set as it stands
RECURSIVE DiscoverAnchors(_, _)
DiscoverAnchors(anchors, set) ==
  IF anchors = <<>> \/ Len(set) >= cfg.maxDiscovered THEN set
  ELSE LET hrefA == Head(anchors)
           target == JoinRelative(StripSlash(hrefA))
           targetUrl == normalizePathToUrl(cfg.siteUrl, target)
       IN IF hrefA = NoVal \/ IsHttpUrl(hrefA) \/ StartsWith(hrefA, <<"#">>)
          THEN DiscoverAnchors(Tail(anchors), set)
          ELSE IF IsRegularFile(target) /\ \A k \in 1..Len(set) : set[k] # targetUrl
          THEN DiscoverAnchors(Tail(anchors), Append(set, targetUrl))
          ELSE DiscoverAnchors(Tail(anchors), set)

\* 105, 126: the discovery set after the walk of file f
DiscoverIn(f, set) ==
  IF IsParsed(f) /\ cfg.discoverLinks /\ ~StatThrows(f) /\ ~ReadThrows(f)
  THEN DiscoverAnchors(site.page[f].anchors, set)
  ELSE set

HasUrl(its, u) == \E k \in 1..Len(its) : its[k].url = u

\* 196-201
ManualItems ==
  [k \in 1..Len(cfg.additionalUrls) |->
     Item(cfg.additionalUrls[k], NoVal, cfg.changefreq, PrioText(ConfiguredPriority), "manual")]

\* the merge loop testing the total cap with > in place of >=
RECURSIVE MergeLoopLate(_, _, _)
MergeLoopLate(ds, its, addedFromDiscovered) ==
  IF ds = <<>> THEN its
  ELSE IF Len(its) > cfg.maxTotal THEN its
  ELSE IF addedFromDiscovered >= cfg.maxDiscovered THEN its
  ELSE IF ~HasUrl(its, Head(ds))
  THEN MergeLoopLate(Tail(ds),
                     Append(its, Item(Head(ds), NoVal, cfg.changefreq,
                                      PrioText(ConfiguredPriority), "discovered")),
                     addedFromDiscovered + 1)
  ELSE MergeLoopLate(Tail(ds), its, addedFromDiscovered)

\* 206-222: the merge loop over the discovery set
RECURSIVE MergeLoop(_, _, _)
MergeLoop(ds, its, addedFromDiscovered) ==
  IF ds = <<>> THEN its
  ELSE IF Len(its) >= cfg.maxTotal THEN its
  ELSE IF addedFromDiscovered >= cfg.maxDiscovered THEN its
  ELSE IF ~HasUrl(its, Head(ds))
  THEN MergeLoop(Tail(ds),
                 Append(its, Item(Head(ds), NoVal, cfg.changefreq,
                                  PrioText(ConfiguredPriority), "discovered")),
                 addedFromDiscovered + 1)
  ELSE MergeLoop(Tail(ds), its, addedFromDiscovered)

\* 203-223
MergeDiscoveredItems(its) ==
  IF cfg.discoverLinks /\ discoveredSet # <<>> THEN MergeLoop(discoveredSet, its, 0) ELSE its

\* the dedup forgotten: every item is kept
UniqueItemsKeepAll(its, acc) == its

\* the dedup keeping the last item of a URL instead of the first
RECURSIVE UniqueItemsKeepLast(_, _)
UniqueItemsKeepLast(its, acc) ==
  IF its = <<>> THEN acc
  ELSE IF HasUrl(Tail(its), Head(its).url) THEN UniqueItemsKeepLast(Tail(its), acc)
  ELSE UniqueItemsKeepLast(Tail(its), Append(acc, Head(its)))

\* 225-233: the first item of every URL, in order
RECURSIVE UniqueItems(_, _)
UniqueItems(its, acc) ==
  IF its = <<>> THEN acc
  ELSE IF HasUrl(acc, Head(its).url) THEN UniqueItems(Tail(its), acc)
  ELSE UniqueItems(Tail(its), Append(acc, Head(its)))

\* 240-250: the callback of the exclude filter on one URL, from entry k on:
\* "keep", "drop", or "throw" where new RegExp throws
RECURSIVE ExcludeScan(_, _)
ExcludeScan(url, k) ==
  IF k > Len(cfg.excludeUrls) THEN "keep"
  ELSE LET e == cfg.excludeUrls[k]
       IN IF url = e THEN "drop"
          ELSE IF IsWildcard(e)
          THEN IF ~ExcludeRegex(e).ok THEN "throw"
               ELSE IF RegexTest(e, url) THEN "drop"
               ELSE ExcludeScan(url, k + 1)
          ELSE ExcludeScan(url, k + 1)

\* 236-252
FilteredItems(unique) ==
  LET Keep(it) == ExcludeScan(it.url, 1) = "keep"
  IN SelectSeq(unique, Keep)

FilterThrows(unique) == \E k \in 1..Len(unique) : ExcludeScan(unique[k].url, 1) = "throw"

\* the collation rank of a character: punctuation, then digits, then letters
CharRank(c) ==
  CASE c = "-" -> 1 [] c = ":" -> 2 [] c = "?" -> 3 [] c = "." -> 4 [] c = "*" -> 5
    [] c = "/" -> 6 [] c = "#" -> 7 [] c = "+" -> 8
    [] IsDigit(c) -> 10 + DigitVal(c)
    [] c = "a" -> 21 [] c = "b" -> 22 [] c = "c" -> 23 [] c = "d" -> 24 [] c = "e" -> 25
    [] c = "g" -> 27 [] c = "h" -> 28 [] c = "i" -> 29 [] c = "l" -> 32 [] c = "m" -> 33
    [] c = "n" -> 34 [] c = "p" -> 36 [] c = "s" -> 39 [] c = "t" -> 40 [] c = "x" -> 44
    [] c = "z" -> 46
    [] OTHER -> 50

\* a.localeCompare(b) < 0 on the lower-case texts of the model
RECURSIVE LocaleLess(_, _)
LocaleLess(a, b) ==
  IF b = <<>> THEN FALSE
  ELSE IF a = <<>> THEN TRUE
  ELSE IF CharRank(Head(a)) # CharRank(Head(b)) THEN CharRank(Head(a)) < CharRank(Head(b))
  ELSE LocaleLess(Tail(a), Tail(b))

\* the place of x in a list already sorted (after the items not greater than
\* it: the sort is stable)
RECURSIVE InsertSorted(_, _)
InsertSorted(sorted, x) ==
  IF sorted = <<>> THEN <<x>>
  ELSE IF LocaleLess(x.url, Head(sorted).url) THEN <<x>> \o sorted
  ELSE <<Head(sorted)>> \o InsertSorted(Tail(sorted), x)

\* 285: filteredItems.sort((a, b) => a.url.localeCompare(b.url))
RECURSIVE SortByUrl(_, _)
SortByUrl(its, acc) ==
  IF its = <<>> THEN acc ELSE SortByUrl(Tail(its), InsertSorted(acc, Head(its)))

\* 225-297: what buildUrls returns from the merged items
BuildResult(its) == SortByUrl(FilteredItems(UniqueItems(its, <<>>)), <<>>)

(***************************************************************************)
(* run (src/src/lib/html-parser.js, from line 131) and the writers         *)
(* (src/src/lib/sitemap-writer.js).                                        *)
(***************************************************************************)
\* 240
validLastmodStrategies == {"git", "filemtime", "current", "none"}

\* 260-262: the priority input is refused
PriorityRefused(input) ==
  LET pr == parseFloat(input)
  IN input # NoVal /\ (pr.nan \/ pr.v < 0 \/ pr.v > 100)

\* 458: new URL(item.url) parses: the text starts with a scheme
UrlParses(u) ==
  LET colons == Positions(u, ":")
  IN colons # {} /\ SetMin(colons) > 1
       /\ \A k \in 1..(SetMin(colons) - 1) : u[k] \notin {"/", ".", "#", "?", "*", "+", "-"}

\* 455
sitemapPatterns == <<DEFAULT_SITEMAP_FILENAME, <<"s">> \o sTxt, sIndexName>>

\* 457-488: the item is pushed to invalidUrls
IsInvalidUrl(u) ==
  LET filename == BaseName(PathOf(u))
  IN \/ \E k \in 1..Len(sitemapPatterns) : Includes(filename, sitemapPatterns[k])
     \/ \E k \in 1..Len(cfg.excludeUrls) : RegexTest(cfg.excludeUrls[k], u)
     \/ \E k \in 1..Len(cfg.excludeExtensions) :
          EndsWith(Lower(filename), cfg.excludeExtensions[k])

\* 457-471: the loop throws: a URL that does not parse, or an exclude entry
\* whose regular expression does not compile
PreWriteThrows(its) ==
  /\ its # <<>>
  /\ \/ \E k \in 1..Len(its) : ~UrlParses(its[k].url)
     \/ \E k \in 1..Len(cfg.excludeUrls) : ~ExcludeRegex(cfg.excludeUrls[k]).ok

\* 490-507
PreWriteFiltered(its) ==
  LET Keep(it) == ~IsInvalidUrl(it.url)
  IN SelectSeq(its, Keep)

\* a slice that stops one item early
SliceShort(its, from, to) ==
  LET hi == IF to - 1 > Len(its) THEN Len(its) ELSE to - 1
  IN IF from >= hi THEN <<>> ELSE SubSeq(its, from + 1, hi)

\* 512: urls.slice(i, i + MAX_URLS_PER_SITEMAP)
Slice(its, from, to) ==
  LET hi == IF to > Len(its) THEN Len(its) ELSE to
  IN IF from >= hi THEN <<>> ELSE SubSeq(its, from + 1, hi)

Line(tag, val) == [tag |-> tag, val |-> val]

\* xmlns="http://www.sitemaps.org/schemas/sitemap/0.9", shortened
sNamespace == <<"n", "s">>

\* the generation comment of getXmlGenerationHeader (project-config.js): one
\* line that carries the generation time
XmlGenerationHeader == Line("comment", Iso(now))

\* the text of a priority in the document
PriorityText(p) ==
  CASE p.kind = "string" -> p.text
    [] p.kind = "NaN" -> <<"N", "a", "N">>
    [] OTHER -> NumText(p.v \div 100) \o <<".">> \o NumText((p.v % 100) \div 10)

\* sitemap-writer.js 46-64: the lines of one <url> element
UrlLines(u) ==
  <<Line("url", <<>>), Line("loc", u.url)>>
    \o (IF u.lastmod # NoVal THEN <<Line("lastmod", u.lastmod)>> ELSE <<>>)
    \o (IF u.changefreq # NoVal THEN <<Line("changefreq", u.changefreq)>> ELSE <<>>)
    \o (IF u.priority.kind # "undefined"
        THEN <<Line("priority", PriorityText(u.priority))>> ELSE <<>>)
    \o <<Line("/url", <<>>)>>

RECURSIVE AllUrlLines(_)
AllUrlLines(its) == IF its = <<>> THEN <<>> ELSE UrlLines(Head(its)) \o AllUrlLines(Tail(its))

\* writeSitemapXml: the lines of the document written
XmlDocument(its) ==
  <<Line("?xml", <<>>), XmlGenerationHeader, Line("urlset", sNamespace)>>
    \o AllUrlLines(its) \o <<Line("/urlset", <<>>)>>

\* writeSitemapTxt: lines.join('\n') + '\n'
TxtDocument(its) ==
  IF its = <<>> THEN <<Line("line", <<>>)>>
  ELSE [k \in 1..Len(its) |-> Line("line", its[k].url)]

RECURSIVE IndexEntryLines(_)
IndexEntryLines(entries) ==
  IF entries = <<>> THEN <<>>
  ELSE <<Line("sitemap", <<>>), Line("loc", Head(entries).url)>>
         \o (IF Head(entries).lastmod # NoVal
             THEN <<Line("lastmod", Head(entries).lastmod)>> ELSE <<>>)
         \o <<Line("/sitemap", <<>>)>> \o IndexEntryLines(Tail(entries))

\* writeSitemapIndex
IndexDocument(entries) ==
  <<Line("?xml", <<>>), XmlGenerationHeader, Line("sitemapindex", sNamespace)>>
    \o IndexEntryLines(entries) \o <<Line("/sitemapindex", <<>>)>>

\* name.replace(/\.xml$/i, suffix)
ReplaceXmlExt(name, suffix) ==
  IF EndsWith(Lower(name), sXml) THEN SubSeq(name, 1, Len(name) - Len(sXml)) \o suffix
  ELSE name

\* name.replace(/\.txt$/i, suffix)
ReplaceTxtExt(name, suffix) ==
  IF EndsWith(Lower(name), sTxt) THEN SubSeq(name, 1, Len(name) - Len(sTxt)) \o suffix
  ELSE name

\* 548: the name of XML part n (1-based)
XmlPartName(n) == ReplaceXmlExt(cfg.sitemapFilename, <<"-">> \o NumText(n) \o sXml)

\* 594
TxtFilename == ReplaceXmlExt(cfg.sitemapFilename, sTxt)

\* 608: the name of TXT part n (1-based)
TxtPartName(n) == ReplaceTxtExt(TxtFilename, <<"-">> \o NumText(n) \o sTxt)

\* one write to the output directory
Write(path, kind, lines) == [path |-> path, kind |-> kind, lines |-> lines]

\* a gzip taken before the document has any content
GzipOfUnwritten(w) ==
  IF cfg.generateGzip THEN <<Write(w.path \o sGz, "gz", <<>>)>> ELSE <<>>

GzipOf(w) ==
  IF cfg.generateGzip THEN <<Write(w.path \o sGz, "gz", w.lines)>> ELSE <<>>

\* 547-568: the writes of the parts from part n on
RECURSIVE XmlPartWrites(_)
XmlPartWrites(n) ==
  IF n > Len(chunks) THEN <<>>
  ELSE LET w == Write(XmlPartName(n), "xml", XmlDocument(chunks[n]))
       IN <<w>> \o GzipOf(w) \o XmlPartWrites(n + 1)

\* 552-558
indexItems ==
  [n \in 1..Len(chunks) |->
     [url |-> normalizeUrl(cfg.siteUrl, <<"/">> \o XmlPartName(n)), lastmod |-> Iso(now)]]

\* 524-589: the writes of the XML branch, in order
XmlWrites ==
  IF ~cfg.generateXml THEN <<>>
  ELSE IF Len(chunks) <= 1
  THEN LET w == Write(cfg.sitemapFilename, "xml", XmlDocument(urls))
       IN <<w>> \o GzipOf(w)
  ELSE LET w == Write(sIndexName, "index", IndexDocument(indexItems))
       IN XmlPartWrites(1) \o <<w>> \o GzipOf(w)

\* 593-614: the writes of the TXT branch, in order
TxtWrites ==
  IF ~cfg.generateTxt THEN <<>>
  ELSE IF Len(chunks) <= 1 THEN <<Write(TxtFilename, "txt", TxtDocument(urls))>>
  ELSE [n \in 1..Len(chunks) |-> Write(TxtPartName(n), "txt", TxtDocument(chunks[n]))]

\* the output directory after the writes, the later write of a path replacing
\* the earlier one
RECURSIVE ApplyWrites(_, _)
ApplyWrites(dir, ws) ==
  IF ws = <<>> THEN dir
  ELSE ApplyWrites([p \in DOMAIN dir \cup {Head(ws).path} |->
                      IF p = Head(ws).path
                      THEN [kind |-> Head(ws).kind, lines |-> Head(ws).lines]
                      ELSE dir[p]],
                   Tail(ws))

(***************************************************************************)
(* The validators (src/src/lib/sitemap-validator.js).  A document is the   *)
(* sequence of its lines; a line of an XML document is an element tag with *)
(* its text, a line of a TXT document has the tag "line".  The texts of    *)
(* the model carry no surrounding white space.                             *)
(***************************************************************************)
\* 93: url.length >= 2048
MaxLocLength == 2048

\* 16-24
VALID_CHANGEFREQ ==
  {<<"a", "l", "w", "a", "y", "s">>, <<"h", "o", "u", "r", "l", "y">>,
   <<"d", "a", "i", "l", "y">>, <<"w", "e", "e", "k", "l", "y">>,
   <<"m", "o", "n", "t", "h", "l", "y">>, <<"y", "e", "a", "r", "l", "y">>,
   <<"n", "e", "v", "e", "r">>}

Finding(type, check) == [type |-> type, check |-> check]

\* a severity that ignores the policy
SeverityWarning(strict) == "warning"

\* strict ? 'error' : 'warning'
Severity(strict) == IF strict THEN "error" ELSE "warning"

HasTag(doc, tag) == \E k \in 1..Len(doc) : doc[k].tag = tag

CountTag(doc, tag) == Cardinality({k \in 1..Len(doc) : doc[k].tag = tag})

\* content.includes('xmlns="http://www.sitemaps.org/schemas/sitemap/0.9"')
HasNamespace(doc) ==
  \E k \in 1..Len(doc) : doc[k].tag \in {"urlset", "sitemapindex"} /\ doc[k].val = sNamespace

\* trimmed.startsWith('<?xml')
HasXmlDeclaration(doc) == doc # <<>> /\ Head(doc).tag = "?xml"

\* !/^https?:\/\//i.test(url) || url.length >= 2048
InvalidLoc(url) == ~IsHttpUrl(url) \/ Len(url) >= MaxLocLength

\* !VALID_CHANGEFREQ.includes(freq)
InvalidChangefreq(freq) == freq \notin VALID_CHANGEFREQ

\* isNaN(pr) || pr < 0.0 || pr > 1.0, for pr = parseFloat(text)
InvalidPriority(text) ==
  LET pr == parseFloat(text)
  IN pr.nan \/ pr.v < 0 \/ pr.v > 100

\* 91-94, 106-111, 123-128: the number of elements with the tag whose text
\* is invalid
CountBad(doc, tag) ==
  LET Bad(val) == IF tag = "loc" THEN InvalidLoc(val)
                  ELSE IF tag = "changefreq" THEN InvalidChangefreq(val)
                  ELSE InvalidPriority(val)
  IN Cardinality({k \in 1..Len(doc) : doc[k].tag = tag /\ Bad(doc[k].val)})

When(cond, finding) == IF cond THEN <<finding>> ELSE <<>>

\* 34-150: the results of validateXmlSitemap, in order
validateXmlSitemap(xmlContent, strict, maxUrls) ==
  LET hasUrlsetOpen == HasTag(xmlContent, "urlset")
      hasUrlsetClose == HasTag(xmlContent, "/urlset")
      hasNamespace == HasNamespace(xmlContent)
      hasUrlTags == HasTag(xmlContent, "url") /\ HasTag(xmlContent, "/url")
      hasLocTags == HasTag(xmlContent, "loc")
      urlCount == CountTag(xmlContent, "url")
      locMatches == CountTag(xmlContent, "loc")
  IN (IF ~HasXmlDeclaration(xmlContent) \/ ~hasUrlsetOpen \/ ~hasUrlsetClose
      THEN <<Finding(Severity(strict), "structure")>>
      ELSE <<Finding("info", "format")>>)
     \o When(~hasNamespace, Finding(Severity(strict), "namespace"))
     \o (IF ~hasUrlTags THEN <<Finding(Severity(strict), "url tags")>>
         ELSE When(~hasLocTags, Finding(Severity(strict), "loc tags")))
     \o When(urlCount > maxUrls, Finding(Severity(strict), "limit"))
     \o When(CountBad(xmlContent, "loc") > 0, Finding("warning", "loc"))
     \o When(CountBad(xmlContent, "changefreq") > 0,
             Finding("warning", "changefreq"))
     \o When(CountBad(xmlContent, "priority") > 0,
             Finding("warning", "priority"))
     \o When(hasNamespace /\ hasUrlTags /\ hasLocTags /\ locMatches > 0,
             Finding("info", "compliant"))

\* the text of a line is not empty: split(/\r?\n/).filter(Boolean)
NonEmptyLine(l) == l.tag = "line" => l.val # <<>>

\* !/^https?:\/\//i.test(line)
InvalidTxtLine(l) == l.tag # "line" \/ ~IsHttpUrl(l.val)

TxtLines(doc) == SelectSeq(doc, NonEmptyLine)

CountInvalidTxt(lines) == Cardinality({k \in 1..Len(lines) : InvalidTxtLine(lines[k])})

\* 160-193: the results of validateTxtSitemap, in order
validateTxtSitemap(txtContent, strict, maxUrls) ==
  LET lines == TxtLines(txtContent)
  IN When(Len(lines) > maxUrls, Finding(Severity(strict), "limit"))
     \o (IF CountInvalidTxt(lines) > 0
         THEN <<Finding(Severity(strict), "url")>>
         ELSE <<Finding("info", "compliant")>>)

\* 232-234: the places of the entries <sitemap>\s*<loc>...</loc>...</sitemap>
SitemapEntries(doc) ==
  {k \in 1..(Len(doc) - 1) :
     /\ doc[k].tag = "sitemap"
     /\ doc[k + 1].tag = "loc"
     /\ \E j \in (k + 1)..Len(doc) : doc[j].tag = "/sitemap"}

\* 203-279: the results of validateSitemapIndex, in order
validateSitemapIndex(xmlContent, strict, maxSitemaps) ==
  LET hasIndexOpen == HasTag(xmlContent, "sitemapindex")
      hasIndexClose == HasTag(xmlContent, "/sitemapindex")
      entries == SitemapEntries(xmlContent)
      invalidLocs == Cardinality({k \in entries : InvalidLoc(xmlContent[k + 1].val)})
  IN (IF ~hasIndexOpen \/ ~hasIndexClose
      THEN <<Finding(Severity(strict), "structure")>>
      ELSE <<Finding("info", "format")>>)
     \o When(entries = {}, Finding(Severity(strict), "entries"))
     \o When(Cardinality(entries) > maxSitemaps, Finding(Severity(strict), "limit"))
     \o When(invalidLocs > 0, Finding(Severity(strict), "loc"))
     \o When(hasIndexOpen /\ hasIndexClose /\ entries # {} /\ invalidLocs = 0,
             Finding("info", "compliant"))

\* 511-525: what validateUrlsInXml pushes
validateUrlsInXml(content) ==
  When(CountBad(content, "loc") > 0, Finding("warning", "loc"))

\* 531-562: what validateXmlOptionalElements pushes
validateXmlOptionalElements(content) ==
  When(CountBad(content, "changefreq") > 0, Finding("warning", "changefreq"))
    \o When(CountBad(content, "priority") > 0, Finding("warning", "priority"))

HasError(findings) == \E k \in 1..Len(findings) : findings[k].type = "error"

\* 437-505: validateXmlFileContent, as the result it leaves (the findings
\* pushed so far followed by its own, in order)
validateXmlFileContent(content, result, strict, maxUrls) ==
  LET hasUrlsetOpen == HasTag(content, "urlset")
      hasUrlsetClose == HasTag(content, "/urlset")
      hasNamespace == HasNamespace(content)
      urlCount == CountTag(content, "url")
      declared ==
        result \o When(~HasXmlDeclaration(content), Finding("warning", "declaration"))
      checked ==
        declared
          \o When(~hasNamespace, Finding(Severity(strict), "namespace"))
          \o (IF urlCount = 0 THEN <<Finding("warning", "no urls")>>
              ELSE IF urlCount > maxUrls THEN <<Finding(Severity(strict), "limit")>>
              ELSE <<Finding("info", "count")>>)
          \o validateUrlsInXml(content)
          \o validateXmlOptionalElements(content)
  IN IF ~hasUrlsetOpen \/ ~hasUrlsetClose
     THEN declared \o <<Finding(Severity(strict), "structure")>>
     ELSE checked
            \o When(hasNamespace /\ urlCount > 0 /\ ~HasError(checked),
                    Finding("info", "compliant"))

\* 584: the places of the entries <sitemap>...</sitemap>
SitemapFileEntries(doc) ==
  {k \in 1..Len(doc) :
     doc[k].tag = "sitemap" /\ \E j \in (k + 1)..Len(doc) : doc[j].tag = "/sitemap"}

\* 601: the first <loc> of the entry at place k, or none
EntryLoc(doc, k) ==
  LET stop == SetMin({j \in (k + 1)..Len(doc) : doc[j].tag = "/sitemap"})
      locs == {j \in (k + 1)..(stop - 1) : doc[j].tag = "loc"}
  IN IF locs = {} THEN <<>> ELSE <<doc[SetMin(locs)].val>>

\* 568-624: validateIndexFileContent, as the result it leaves
validateIndexFileContent(content, result, strict, maxUrls) ==
  LET hasIndexOpen == HasTag(content, "sitemapindex")
      hasIndexClose == HasTag(content, "/sitemapindex")
      entries == SitemapFileEntries(content)
      invalidLocs ==
        Cardinality({k \in entries :
                       EntryLoc(content, k) # <<>> /\ InvalidLoc(EntryLoc(content, k)[1])})
  IN IF ~hasIndexOpen \/ ~hasIndexClose
     THEN result \o <<Finding(Severity(strict), "structure")>>
     ELSE result
          \o (IF entries = {} THEN <<Finding("warning", "entries")>>
              ELSE IF Cardinality(entries) > maxUrls
                   THEN <<Finding(Severity(strict), "limit")>>
              ELSE <<Finding("info", "count")>>)
          \o When(invalidLocs > 0, Finding("warning", "loc"))
          \o When(entries # {} /\ invalidLocs = 0, Finding("info", "compliant"))

\* 630-667: validateTxtFileContent, as the result it leaves
validateTxtFileContent(content, result, strict, maxUrls) ==
  LET lines == TxtLines(content)
  IN IF lines = <<>> THEN result \o <<Finding("warning", "no urls")>>
     ELSE result
          \o (IF Len(lines) > maxUrls THEN <<Finding(Severity(strict), "limit")>>
              ELSE <<Finding("info", "count")>>)
          \o (IF CountInvalidTxt(lines) > 0
              THEN <<Finding(Severity(strict), "url")>>
              ELSE <<Finding("info", "compliant")>>)

\* 'sitemap', 'sitemap-index' and 'sitemapindex' in the short names of the model
sSitemapWord == <<"s">>
sIndexWord == <<"s", "-", "i">>
sIndexWordJoined == <<"s", "i">>

\* 414: content.includes('<?xml') || content.includes('<urlset')
LooksLikeXml(content) == HasTag(content, "?xml") \/ HasTag(content, "urlset")

\* 418-421: every non-empty line starts with http(s)://
AllLinesHttp(content) ==
  \A k \in 1..Len(content) : NonEmptyLine(content[k]) => ~InvalidTxtLine(content[k])

\* 390-431: detectAndValidateType, as the result it leaves
detectAndValidateType(filename, content, result, strict, maxUrls) ==
  IF EndsWith(filename, sTxt) THEN validateTxtFileContent(content, result, strict, maxUrls)
  ELSE IF Includes(filename, sSitemapWord)
            /\ (EndsWith(filename, sXml) \/ EndsWith(filename, sGz))
  THEN IF Includes(filename, sIndexWord) \/ Includes(filename, sIndexWordJoined)
       THEN validateIndexFileContent(content, result, strict, maxUrls)
       ELSE validateXmlFileContent(content, result, strict, maxUrls)
  ELSE IF LooksLikeXml(content) THEN validateXmlFileContent(content, result, strict, maxUrls)
  ELSE IF AllLinesHttp(content) THEN validateTxtFileContent(content, result, strict, maxUrls)
  ELSE result \o <<Finding("warning", "unknown type")>>

\* an existing file given for validation: its name, whether it is there and
\* can be read, its size in MB and its lines
ExternalFile(name, state, sizeMb, lines) ==
  [name |-> name, state |-> state, sizeMb |-> sizeMb, lines |-> lines]

\* 329-384: validateSitemapFile, as the findings of the file's result
validateSitemapFile(file, strict, maxUrls, maxSizeMb) ==
  IF file.state = "missing" THEN <<Finding("error", "not found")>>
  ELSE IF file.state = "no stat" THEN <<Finding("error", "stats")>>
  ELSE LET sized == When(file.sizeMb > maxSizeMb, Finding(Severity(strict), "size"))
       IN IF file.state = "unreadable" THEN sized \o <<Finding("error", "read")>>
          ELSE detectAndValidateType(Lower(file.name), file.lines, sized, strict, maxUrls)

(***************************************************************************)
(* Validation inside run (html-parser.js 618-899).  An entry of report is  *)
(* a finding with the part of run that reported it; every error is also a  *)
(* core.setFailed call, recorded in failed under the name of that part.    *)
(***************************************************************************)
\* 120-128: the limit when the environment does not override it
DefaultMaxSizeMb == 50

\* the size of a written document in MB, rounded up: the documents of the
\* model are not empty and far below one MB
SizeMb(file) == 1

Reported(part, findings) ==
  [k \in 1..Len(findings) |->
     [part |-> part, type |-> findings[k].type, check |-> findings[k].check]]

\* 645, 722, 749, 879: one core.setFailed per error, in order
SetFailedFor(entries) ==
  LET IsError(e) == e.type = "error"
      errs == SelectSeq(entries, IsError)
  IN [k \in 1..Len(errs) |-> errs[k].part]

\* 525: outMain
outMain == IF cfg.generateXml THEN cfg.sitemapFilename ELSE <<>>

\* 637-649
XmlValidation ==
  IF cfg.generateXml /\ outMain \in DOMAIN fs
  THEN Reported("xml", validateXmlSitemap(fs[outMain].lines, cfg.strictValidation,
                                          cfg.maxPerFile))
  ELSE <<>>

\* 652-685: the size of the main XML file and of its gzip
XmlSizeValidation ==
  IF outMain # <<>> /\ outMain \in DOMAIN fs
  THEN Reported("size",
                (IF SizeMb(fs[outMain]) > cfg.xmlMaxSizeMb
                 THEN <<Finding(Severity(cfg.strictValidation), "size")>>
                 ELSE <<Finding("info", "size")>>)
                \o (IF cfg.gzip /\ (outMain \o sGz) \in DOMAIN fs
                    THEN IF SizeMb(fs[outMain \o sGz]) > cfg.xmlMaxSizeMb
                         THEN <<Finding(Severity(cfg.strictValidation), "gzip size")>>
                         ELSE <<Finding("info", "gzip size")>>
                    ELSE <<>>))
  ELSE <<>>

\* 593-595: txtSitemapPath
txtSitemapPath == IF cfg.generateTxt THEN TxtFilename ELSE <<>>

\* 690-730
TxtValidation ==
  IF cfg.generateTxt /\ txtSitemapPath # <<>> /\ txtSitemapPath \in DOMAIN fs
  THEN LET txtContent == fs[txtSitemapPath].lines
       IN Reported("txt",
                   (IF SizeMb(fs[txtSitemapPath]) > cfg.txtMaxSizeMb
                    THEN <<Finding(Severity(cfg.strictValidation), "size")>>
                    ELSE <<Finding("info", "size")>>)
                   \o When(cfg.strictValidation /\ CountInvalidTxt(TxtLines(txtContent)) > 0,
                           Finding("error", "protocol"))
                   \o validateTxtSitemap(txtContent, cfg.strictValidation, cfg.maxPerFile))
  ELSE <<>>

\* 733-757
IndexValidation ==
  IF sIndexName \in DOMAIN fs
  THEN Reported("index", validateSitemapIndex(fs[sIndexName].lines, cfg.strictValidation,
                                              cfg.maxPerFile))
  ELSE <<>>

\* one call of a validator of sitemap-validator.js on the content of a file
Call(validator, path) == [validator |-> validator, path |-> path, lines |-> fs[path].lines]

\* 637-643, 717-720, 744-747: the validator calls of the validation block, in
\* order
ValidatorCalls ==
  (IF cfg.generateXml /\ outMain \in DOMAIN fs
   THEN <<Call("validateXmlSitemap", outMain)>> ELSE <<>>)
    \o (IF cfg.generateTxt /\ txtSitemapPath # <<>> /\ txtSitemapPath \in DOMAIN fs
        THEN <<Call("validateTxtSitemap", txtSitemapPath)>> ELSE <<>>)
    \o (IF sIndexName \in DOMAIN fs
        THEN <<Call("validateSitemapIndex", sIndexName)>> ELSE <<>>)

\* 633-757: what the validation block reports, in order
GeneratedValidation == XmlValidation \o XmlSizeValidation \o TxtValidation \o IndexValidation

\* 855-881: what run reports for one existing file: a file that is not there
\* is a warning, the rest is the file's result as it stands
ExternalFileReport(file) ==
  IF file.state = "missing" THEN <<[part |-> "external", type |-> "warning", check |-> "not found"]>>
  ELSE Reported("external",
                validateSitemapFile(file, cfg.strictValidation, cfg.maxPerFile, cfg.xmlMaxSizeMb))

\* 844-893
RECURSIVE ExternalValidation(_)
ExternalValidation(files) ==
  IF files = <<>> THEN <<>>
  ELSE ExternalFileReport(Head(files)) \o ExternalValidation(Tail(files))

\* 324-336: the early check of additional_urls under strict validation
EarlyAdditionalFails ==
  /\ cfg.strictValidation
  /\ \E k \in 1..Len(cfg.additionalUrls) : ~IsHttpUrl(cfg.additionalUrls[k])

\* an exception that leaves the try block of run without being caught: run
\* would reject and nothing would be reported
Escapes(f, what) == [pc |-> "escaped", failed |-> f]

\* 907-909: the catch of run: one core.setFailed with the message, and run
\* returns
Caught(f, what) == [pc |-> "done", failed |-> Append(f, what)]

\* 528, 550, 572: a write of the XML branch throws
XmlWriteThrows == cfg.generateXml /\ cfg.ioFails = "xml"

\* 598, 610: a write of the TXT branch throws
TxtWriteThrows == cfg.generateTxt /\ cfg.ioFails = "txt"

\* 639: reading the main XML file back throws
ValidationThrows == cfg.generateXml /\ outMain \in DOMAIN fs /\ cfg.ioFails = "validate"

\* 770-807: there are files to upload and the upload rejects
UploadThrows ==
  /\ cfg.ioFails = "upload"
  /\ \/ cfg.generateXml /\ outMain \in DOMAIN fs
     \/ sIndexName \in DOMAIN fs /\ Len(chunks) > 1 /\ cfg.generateXml
     \/ cfg.generateTxt /\ txtSitemapPath \in DOMAIN fs

\* 574-578: the index file as TEST_CORRUPT_SITEMAP_INDEX leaves it
Corrupted(lines) ==
  LET NotClose(l) == l.tag # "/sitemapindex"
  IN SelectSeq(lines, NotClose)

(***************************************************************************)
(* The inputs.                                                             *)
(***************************************************************************)
DefaultMaxDiscovered == 10000
DefaultMaxTotal == 100000
DefaultMaxPerFile == 50000

\* '*/sitemap*.xml,*/sitemap*.txt' of run 200, for the short names of the model
DefaultExcludeUrls == <<(<<"*", "/", "s", "*">> \o sXml), (<<"*", "/", "s", "*">> \o sTxt)>>

DefaultCfg ==
  [siteUrl |-> sBase \o <<"/">>,
   parseCanonical |-> TRUE,
   discoverLinks |-> TRUE,
   additionalUrls |-> <<>>,
   excludeUrls |-> DefaultExcludeUrls,
   excludeExtensions |-> <<sZip>>,
   lastmodStrategy |-> "filemtime",
   changefreq |-> NoVal,
   priorityInput |-> NoVal,
   generateXml |-> TRUE,
   generateTxt |-> TRUE,
   generateGzip |-> TRUE,
   sitemapFilename |-> DEFAULT_SITEMAP_FILENAME,
   maxDiscovered |-> DefaultMaxDiscovered,
   maxTotal |-> DefaultMaxTotal,
   maxPerFile |-> DefaultMaxPerFile,
   gzip |-> TRUE,
   strictValidation |-> FALSE,
   xmlMaxSizeMb |-> DefaultMaxSizeMb,
   txtMaxSizeMb |-> DefaultMaxSizeMb,
   corruptIndex |-> FALSE,
   uploadArtifacts |-> TRUE,
   validateSitemaps |-> <<>>,
   ioFails |-> "none"]

\* no document is handed to the validators outside a run
NoDoc == [kind |-> "none", lines |-> <<>>, strict |-> FALSE, maxUrls |-> DefaultMaxPerFile]

PlainPage == [canonical |-> NoVal, anchors |-> <<>>]

\* a fragment, an external link, two hrefs of one file, a second file and a
\* link to a file that does not exist
RichAnchors ==
  <<(<<"#", "x">>), (sBase \o <<"/", "z">>), (<<"/">> \o fileB), fileB,
    (<<"/">> \o fileC), (<<"/", "n">> \o sHtml)>>

PagesOf(f) ==
  IF f = fileA
  THEN {[canonical |-> c, anchors |-> a] : c \in {NoVal, urlHome, urlB},
                                           a \in {<<>>, RichAnchors}}
  ELSE IF f = fileB
  THEN {[canonical |-> c, anchors |-> a] :
          c \in {NoVal, urlHome}, a \in {<<>>, <<(<<"/">> \o fileC), (<<"/">> \o fileA)>>}}
  ELSE {PlainPage}

\* the lists glob.sync may return: the files of the directory that the
\* include and exclude patterns let through, in directory order
RECURSIVE Pick(_, _)
Pick(S, k) ==
  IF k > Len(AllFiles) THEN <<>>
  ELSE (IF k \in S THEN <<AllFiles[k]>> ELSE <<>>) \o Pick(S, k + 1)

FileLists == {Pick(S, 1) : S \in {T \in SUBSET (1..Len(AllFiles)) : Cardinality(T) <= MaxFiles}}

Walked(files, f) == \E k \in 1..Len(files) : files[k] = f

\* the sites with the given files walked; a file that is not walked is plain
SitesOf(files) ==
  {[files |-> files, page |-> pg, committed |-> {}, statFails |-> {}, readFails |-> {}] :
     pg \in {q \in [{AllFiles[k] : k \in 1..Len(AllFiles)} ->
                      UNION {PagesOf(AllFiles[k]) : k \in 1..Len(AllFiles)}] :
               \A k \in 1..Len(AllFiles) :
                 /\ q[AllFiles[k]] \in PagesOf(AllFiles[k])
                 /\ ~Walked(files, AllFiles[k]) => q[AllFiles[k]] = PlainPage}}

PlainSite(files) ==
  [files |-> files, page |-> [f \in {AllFiles[k] : k \in 1..Len(AllFiles)} |-> PlainPage],
   committed |-> {}, statFails |-> {}, readFails |-> {}]

CapValues == 0..MaxCap

ManualLists == {<<>>, <<urlB>>, <<urlManual, urlHome>>}

InitRunState ==
  /\ pc = "start"
  /\ now = 1
  /\ runNo = 1
  /\ idx = 1
  /\ items = <<>>
  /\ discoveredSet = <<>>
  /\ skippedCount = 0
  /\ urls = <<>>
  /\ chunks = <<>>
  /\ ci = 0
  /\ fs = <<>>
  /\ log = <<>>
  /\ failed = <<>>
  /\ prev = <<>>
  /\ report = <<>>
  /\ subject = NoDoc
  /\ found = <<>>
  /\ errors = <<>>
  /\ handed = <<>>

\* the collection: every site of the model, with the caps, the manual URLs
\* and the two parsing switches varied
InitBuild ==
  /\ \E files \in FileLists : site \in SitesOf(files)
  /\ \E K \in CapValues \cup {DefaultMaxDiscovered}, T \in CapValues \cup {DefaultMaxTotal},
        manual \in ManualLists, pcan \in BOOLEAN, disc \in BOOLEAN :
       cfg = [DefaultCfg EXCEPT !.maxDiscovered = K, !.maxTotal = T,
                                !.additionalUrls = manual, !.parseCanonical = pcan,
                                !.discoverLinks = disc]
  /\ InitRunState

Prefixes == {SubSeq(AllFiles, 1, n) : n \in 0..(IF MaxFiles < Len(AllFiles) THEN MaxFiles ELSE Len(AllFiles))}

PriorityInputs ==
  {NoVal, <<"0", ".", "5">>, <<"0">>, <<"1", ".", "5">>, <<"-", "1">>, <<"x">>,
   <<"0", ".", "5", "x">>}

SitemapFilenames == {DEFAULT_SITEMAP_FILENAME, <<"s", ".", "X", "M", "L">>, <<"s">>}

\* the pipeline: plain sites, with the per-file limit, the file name, the
\* priority, the output switches and the lastmod strategy varied
InitRun ==
  /\ \E files \in Prefixes : site = PlainSite(files)
  /\ \E M \in CapValues \cup {DefaultMaxPerFile}, name \in SitemapFilenames,
        prio \in PriorityInputs, xml \in BOOLEAN, txt \in BOOLEAN, gz \in BOOLEAN,
        strategy \in {"none", "current"}, manual \in {<<>>, <<urlManual, urlHome>>} :
       cfg = [DefaultCfg EXCEPT !.maxPerFile = M, !.sitemapFilename = name,
                                !.priorityInput = prio, !.generateXml = xml,
                                !.generateTxt = txt, !.generateGzip = gz,
                                !.lastmodStrategy = strategy, !.additionalUrls = manual]
  /\ InitRunState

\* exact entries, wildcard entries, an entry with a "+" between letters and
\* one with a "+" after the "*"
ExcludeLists ==
  {DefaultExcludeUrls,
   <<urlB>>,
   <<(<<"*", "/", "b", "?", "h", "t", "m", "l">>)>>,
   <<(<<"*", "/", "c", "+", "d">>)>>,
   <<(<<"*", "/", "a", "*">>), urlManual>>,
   <<(<<"*", "+", "d">>)>>}

\* the exclusion: every site on the first files of the directory, with the
\* exclude entries and the manual URLs varied
InitExclude ==
  /\ \E files \in Prefixes : site \in SitesOf(files)
  /\ \E ex \in ExcludeLists, manual \in {<<>>, <<urlPlus>>, <<urlManual, urlHome>>} :
       cfg = [DefaultCfg EXCEPT !.excludeUrls = ex, !.additionalUrls = manual]
  /\ InitRunState

(***************************************************************************)
(* The steps of run.                                                       *)
(***************************************************************************)
\* 131-423: the inputs are read and validated; an invalid priority is reported
\* and run returns; under strict validation an additional URL that is not
\* http(s) is reported and run goes on
Configure ==
  /\ pc = "start"
  /\ IF PriorityRefused(cfg.priorityInput)
     THEN /\ failed' = Append(failed, "priority")
          /\ pc' = "done"
     ELSE /\ failed' = IF EarlyAdditionalFails THEN Append(failed, "additional") ELSE failed
          /\ pc' = "walk"
  /\ errors' = IF cfg.lastmodStrategy \notin validLastmodStrategies
                THEN Append(errors, "lastmod_strategy") ELSE errors
  /\ UNCHANGED <<cfg, site, now, runNo, idx, items, discoveredSet, skippedCount,
                 urls, chunks, ci, fs, log, prev, report, subject, found, handed>>

\* url-builder.js 85-175: one turn of the loop over the files
WalkFile ==
  /\ pc = "walk"
  /\ idx <= Len(site.files)
  /\ LET f == site.files[idx]
     IN IF ExtName(f) = sMap
        THEN /\ skippedCount' = skippedCount + 1
             /\ UNCHANGED <<items, discoveredSet>>
        ELSE /\ items' = Append(items, WalkedItem(f))
             /\ discoveredSet' = DiscoverIn(f, discoveredSet)
             /\ UNCHANGED skippedCount
  /\ idx' = idx + 1
  /\ UNCHANGED <<cfg, site, pc, now, runNo, urls, chunks, ci, fs, log, failed, prev, report, subject, found, errors, handed>>

\* url-builder.js 196-201, once the loop over the files has ended
AddManual ==
  /\ pc = "walk"
  /\ idx > Len(site.files)
  /\ items' = items \o ManualItems
  /\ pc' = "merge"
  /\ UNCHANGED <<cfg, site, now, runNo, idx, discoveredSet, skippedCount, urls,
                 chunks, ci, fs, log, failed, prev, report, subject, found, errors, handed>>

\* url-builder.js 203-223
MergeDiscovered ==
  /\ pc = "merge"
  /\ items' = MergeDiscoveredItems(items)
  /\ pc' = "collect"
  /\ UNCHANGED <<cfg, site, now, runNo, idx, discoveredSet, skippedCount, urls,
                 chunks, ci, fs, log, failed, prev, report, subject, found, errors, handed>>

\* url-builder.js 225-297 and run 425-445: buildUrls returns, or throws into
\* the catch of run (907-909)
FinishBuild ==
  /\ pc = "collect"
  /\ IF FilterThrows(UniqueItems(items, <<>>))
     THEN /\ failed' = Caught(failed, "exception").failed
          /\ pc' = Caught(failed, "exception").pc
          /\ urls' = urls
     ELSE /\ urls' = BuildResult(items)
          /\ pc' = "prewrite"
          /\ failed' = failed
  /\ UNCHANGED <<cfg, site, now, runNo, idx, items, discoveredSet, skippedCount,
                 chunks, ci, fs, log, prev, report, subject, found, errors, handed>>

\* run 447-507
PreWrite ==
  /\ pc = "prewrite"
  /\ IF PreWriteThrows(urls)
     THEN /\ failed' = Caught(failed, "exception").failed
          /\ pc' = Caught(failed, "exception").pc
          /\ urls' = urls
     ELSE /\ urls' = PreWriteFiltered(urls)
          /\ pc' = "chunk"
          /\ failed' = failed
  /\ UNCHANGED <<cfg, site, now, runNo, idx, items, discoveredSet, skippedCount,
                 chunks, ci, fs, log, prev, report, subject, found, errors, handed>>

\* run 511-513: one turn of the chunking loop
ChunkStep ==
  /\ pc = "chunk"
  /\ ci < Len(urls)
  /\ Len(chunks) < MaxChunks
  /\ chunks' = Append(chunks, Slice(urls, ci, ci + cfg.maxPerFile))
  /\ ci' = ci + cfg.maxPerFile
  /\ UNCHANGED <<cfg, site, pc, now, runNo, idx, items, discoveredSet, skippedCount,
                 urls, fs, log, failed, prev, report, subject, found, errors, handed>>

\* run 511: the loop ends
ChunkDone ==
  /\ pc = "chunk"
  /\ ci >= Len(urls)
  /\ pc' = "xml"
  /\ UNCHANGED <<cfg, site, now, runNo, idx, items, discoveredSet, skippedCount,
                 urls, chunks, ci, fs, log, failed, prev, report, subject, found, errors, handed>>

\* run 524-589: the XML branch; a write that throws leaves the try block of
\* run
WriteXml ==
  /\ pc = "xml"
  /\ IF XmlWriteThrows
     THEN /\ pc' = Caught(failed, "write exception").pc
          /\ failed' = Caught(failed, "write exception").failed
          /\ UNCHANGED <<fs, log>>
     ELSE /\ fs' = LET dir == ApplyWrites(fs, XmlWrites)
                   IN IF cfg.corruptIndex /\ cfg.generateXml /\ Len(chunks) > 1
                      THEN [dir EXCEPT ![sIndexName].lines = Corrupted(@)]
                      ELSE dir
          /\ log' = log \o XmlWrites
          /\ pc' = "txt"
          /\ failed' = failed
  /\ UNCHANGED <<cfg, site, now, runNo, idx, items, discoveredSet, skippedCount,
                 urls, chunks, ci, prev, report, subject, found, errors, handed>>

\* run 591-616: the TXT branch
WriteTxt ==
  /\ pc = "txt"
  /\ IF TxtWriteThrows
     THEN /\ pc' = Caught(failed, "write exception").pc
          /\ failed' = Caught(failed, "write exception").failed
          /\ UNCHANGED <<fs, log>>
     ELSE /\ fs' = ApplyWrites(fs, TxtWrites)
          /\ log' = log \o TxtWrites
          /\ pc' = "validate"
          /\ failed' = failed
  /\ UNCHANGED <<cfg, site, now, runNo, idx, items, discoveredSet, skippedCount,
                 urls, chunks, ci, prev, report, subject, found, errors, handed>>

\* run 618-760: the validation of the generated documents; an exception of
\* the block is a warning and the rest of the block is skipped
Validate ==
  /\ pc = "validate"
  /\ LET entries ==
           IF ValidationThrows
           THEN <<[part |-> "validation", type |-> "warning", check |-> "skipped"]>>
           ELSE GeneratedValidation
     IN /\ report' = report \o entries
        /\ failed' = failed \o SetFailedFor(entries)
  /\ handed' = IF ValidationThrows THEN handed ELSE handed \o ValidatorCalls
  /\ pc' = "upload"
  /\ UNCHANGED <<cfg, site, now, runNo, idx, items, discoveredSet, skippedCount,
                 urls, chunks, ci, fs, log, prev, subject, found, errors>>

\* run 762-839: the upload; its failure is a warning
Upload ==
  /\ pc = "upload"
  /\ report' = IF cfg.uploadArtifacts /\ UploadThrows
               THEN Append(report, [part |-> "upload", type |-> "warning", check |-> "failed"])
               ELSE report
  /\ pc' = "external"
  /\ UNCHANGED <<cfg, site, now, runNo, idx, items, discoveredSet, skippedCount,
                 urls, chunks, ci, fs, log, failed, prev, subject, found, errors, handed>>

\* run 841-899: the validation of the existing files of validate_sitemaps
ValidateExternal ==
  /\ pc = "external"
  /\ LET entries == ExternalValidation(cfg.validateSitemaps)
     IN /\ report' = report \o entries
        /\ failed' = failed \o SetFailedFor(entries)
  /\ pc' = "outputs"
  /\ UNCHANGED <<cfg, site, now, runNo, idx, items, discoveredSet, skippedCount,
                 urls, chunks, ci, fs, log, prev, subject, found, errors, handed>>

\* run 901-906
SetOutputs ==
  /\ pc = "outputs"
  /\ pc' = "done"
  /\ UNCHANGED <<cfg, site, now, runNo, idx, items, discoveredSet, skippedCount,
                 urls, chunks, ci, fs, log, failed, prev, report, subject, found, errors, handed>>

\* the action is run a second time on the same inputs, at a later time; the
\* output directory keeps the files of the first run
Rerun ==
  /\ pc = "done"
  /\ runNo = 1
  /\ runNo' = 2
  /\ now' = now + 1
  /\ prev' = fs
  /\ pc' = "start"
  /\ idx' = 1
  /\ items' = <<>>
  /\ discoveredSet' = <<>>
  /\ skippedCount' = 0
  /\ urls' = <<>>
  /\ chunks' = <<>>
  /\ ci' = 0
  /\ log' = <<>>
  /\ failed' = <<>>
  /\ report' = <<>>
  /\ errors' = <<>>
  /\ handed' = <<>>
  /\ UNCHANGED <<cfg, site, fs, subject, found>>

Next ==
  \/ Configure
  \/ WalkFile
  \/ AddManual
  \/ MergeDiscovered
  \/ FinishBuild
  \/ PreWrite
  \/ ChunkStep
  \/ ChunkDone
  \/ WriteXml
  \/ WriteTxt
  \/ Validate
  \/ Upload
  \/ ValidateExternal
  \/ SetOutputs
  \/ Rerun

Spec == InitRun /\ [][Next]_vars

(***************************************************************************)
(* The validators on their own: a document of the bounded space below is   *)
(* handed to the validator of the generated documents and to the validator *)
(* of the existing files, each called once.                                *)
(***************************************************************************)
urlFtp == <<"f", "t", "p", ":", "/", "/", "x">>
\* a location of exactly 2048 characters
urlLong == sBase \o <<"/">> \o [k \in 1..(MaxLocLength - Len(sBase) - 1) |-> "a"]
sDaily == <<"d", "a", "i", "l", "y">>
sOften == <<"o", "f", "t", "e", "n">>

Opt(tag, val) == IF val = NoVal THEN <<>> ELSE <<Line(tag, val)>>

\* the <url> elements a document of the space may hold
UrlElements ==
  {<<Line("url", <<>>)>> \o Opt("loc", loc) \o Opt("changefreq", freq)
     \o Opt("priority", prio) \o <<Line("/url", <<>>)>> :
     loc \in {NoVal, urlA, urlFtp, urlLong},
     freq \in {NoVal, sDaily, sOften},
     prio \in {NoVal, <<"0", ".", "5">>, <<"1", ".", "5">>, <<"x">>}}

\* the <sitemap> elements an index of the space may hold
SitemapElements ==
  {<<Line("sitemap", <<>>)>> \o Opt("loc", loc) \o <<Line("/sitemap", <<>>)>> :
     loc \in {NoVal, urlA, urlFtp}}

\* a document with or without its declaration, its root tags and the namespace
Framed(root, rootEnd, decl, open, ns, close, body) ==
  (IF decl THEN <<Line("?xml", <<>>)>> ELSE <<>>)
    \o (IF open THEN <<Line(root, IF ns THEN sNamespace ELSE <<>>)>> ELSE <<>>)
    \o body
    \o (IF close THEN <<Line(rootEnd, <<>>)>> ELSE <<>>)

XmlTexts ==
  {Framed("urlset", "/urlset", decl, open, ns, close, body) :
     decl \in BOOLEAN, open \in BOOLEAN, ns \in BOOLEAN, close \in BOOLEAN,
     body \in {<<>>} \cup UrlElements}

IndexTexts ==
  {Framed("sitemapindex", "/sitemapindex", decl, open, ns, close, body) :
     decl \in BOOLEAN, open \in BOOLEAN, ns \in BOOLEAN, close \in BOOLEAN,
     body \in {<<>>} \cup SitemapElements}

TxtTexts ==
  {<<>>, <<Line("line", <<>>)>>, <<Line("line", urlA)>>, <<Line("line", urlFtp)>>,
   <<Line("line", urlA), Line("line", urlFtp)>>}

Documents ==
  {[kind |-> "xml", lines |-> t, strict |-> st, maxUrls |-> m] :
     t \in XmlTexts, st \in BOOLEAN, m \in {0, DefaultMaxPerFile}}
  \cup {[kind |-> "index", lines |-> t, strict |-> st, maxUrls |-> m] :
          t \in IndexTexts, st \in BOOLEAN, m \in {0, DefaultMaxPerFile}}
  \cup {[kind |-> "txt", lines |-> t, strict |-> st, maxUrls |-> m] :
          t \in TxtTexts, st \in BOOLEAN, m \in {0, DefaultMaxPerFile}}

InitValidate ==
  /\ cfg = DefaultCfg
  /\ site = PlainSite(<<>>)
  /\ pc = "validators"
  /\ now = 1
  /\ runNo = 1
  /\ idx = 1
  /\ items = <<>>
  /\ discoveredSet = <<>>
  /\ skippedCount = 0
  /\ urls = <<>>
  /\ chunks = <<>>
  /\ ci = 0
  /\ fs = <<>>
  /\ log = <<>>
  /\ failed = <<>>
  /\ prev = <<>>
  /\ report = <<>>
  /\ subject \in Documents
  /\ found = <<>>
  /\ errors = <<>>
  /\ handed = <<>>

\* the validator run calls on a document it generated (637-649, 717-725, 744-752)
GeneratedResults(d) ==
  IF d.kind = "xml" THEN validateXmlSitemap(d.lines, d.strict, d.maxUrls)
  ELSE IF d.kind = "txt" THEN validateTxtSitemap(d.lines, d.strict, d.maxUrls)
  ELSE validateSitemapIndex(d.lines, d.strict, d.maxUrls)

\* the validator validateSitemapFile calls on the content of an existing file
\* of that type (394-411), from an empty result
ExternalResults(d) ==
  IF d.kind = "xml" THEN validateXmlFileContent(d.lines, <<>>, d.strict, d.maxUrls)
  ELSE IF d.kind = "txt" THEN validateTxtFileContent(d.lines, <<>>, d.strict, d.maxUrls)
  ELSE validateIndexFileContent(d.lines, <<>>, d.strict, d.maxUrls)

ValidateGenerated ==
  /\ pc = "validators"
  /\ "generated" \notin DOMAIN found
  /\ found' = found @@ ("generated" :> GeneratedResults(subject))
  /\ UNCHANGED <<cfg, site, pc, now, runNo, idx, items, discoveredSet, skippedCount,
                 urls, chunks, ci, fs, log, failed, prev, report, subject, errors, handed>>

ValidateFile ==
  /\ pc = "validators"
  /\ "external" \notin DOMAIN found
  /\ found' = found @@ ("external" :> ExternalResults(subject))
  /\ UNCHANGED <<cfg, site, pc, now, runNo, idx, items, discoveredSet, skippedCount,
                 urls, chunks, ci, fs, log, failed, prev, report, subject, errors, handed>>

NextValidate ==
  \/ ValidateGenerated
  \/ ValidateFile

SpecValidate == InitValidate /\ [][NextValidate]_vars

(***************************************************************************)
(* The run with its validation varied: the policy, the size limits, an     *)
(* additional URL that is not http(s), the corruption switch of the index, *)
(* existing files given for validation, and an I/O operation that fails.   *)
(***************************************************************************)
\* an additional URL that new URL() does not parse
urlRelative == <<"b", "/", "p">>
sMain == DEFAULT_SITEMAP_FILENAME
sMainTxt == <<"s">> \o sTxt

UrlElement(loc) == <<Line("url", <<>>), Line("loc", loc), Line("/url", <<>>)>>

SitemapElement(loc) == <<Line("sitemap", <<>>), Line("loc", loc), Line("/sitemap", <<>>)>>

\* existing files: one that is not there, a directory, a valid sitemap, a
\* sitemap with an ftp location, one larger than the limit, an index without
\* its closing tag, an index without its opening tag, a valid index, a TXT
\* sitemap with an ftp line
ExistingFiles ==
  {ExternalFile(sMain, "missing", 0, <<>>),
   ExternalFile(sMain, "unreadable", 1, <<>>),
   ExternalFile(sMain, "file", 1,
                Framed("urlset", "/urlset", TRUE, TRUE, TRUE, TRUE, UrlElement(urlA))),
   ExternalFile(sMain, "file", 1,
                Framed("urlset", "/urlset", TRUE, TRUE, TRUE, TRUE, UrlElement(urlFtp))),
   ExternalFile(sMain, "file", DefaultMaxSizeMb + 1,
                Framed("urlset", "/urlset", TRUE, TRUE, TRUE, TRUE, UrlElement(urlA))),
   ExternalFile(sIndexName, "file", 1,
                Framed("sitemapindex", "/sitemapindex", TRUE, TRUE, TRUE, FALSE,
                       SitemapElement(urlA))),
   ExternalFile(sIndexName, "file", 1,
                Framed("sitemapindex", "/sitemapindex", TRUE, FALSE, TRUE, TRUE,
                       SitemapElement(urlA))),
   ExternalFile(sIndexName, "file", 1,
                Framed("sitemapindex", "/sitemapindex", TRUE, TRUE, TRUE, TRUE,
                       SitemapElement(urlA))),
   ExternalFile(sMainTxt, "file", 1, <<Line("line", urlA), Line("line", urlFtp)>>)}

SizeLimits == {0, DefaultMaxSizeMb}

InitPolicy ==
  /\ \E files \in Prefixes : site = PlainSite(files)
  /\ \/ \E strict \in BOOLEAN, manual \in {<<>>, <<urlFtp>>, <<urlManual>>, <<urlRelative>>},
           M \in {1, DefaultMaxPerFile}, xml \in BOOLEAN, txt \in BOOLEAN,
           corrupt \in BOOLEAN, limit \in SizeLimits :
          cfg = [DefaultCfg EXCEPT !.strictValidation = strict, !.additionalUrls = manual,
                                   !.maxPerFile = M, !.generateXml = xml,
                                   !.generateTxt = txt, !.corruptIndex = corrupt,
                                   !.xmlMaxSizeMb = limit, !.txtMaxSizeMb = limit]
     \/ \E strict \in BOOLEAN, file \in ExistingFiles, limit \in SizeLimits :
          cfg = [DefaultCfg EXCEPT !.strictValidation = strict,
                                   !.validateSitemaps = <<file>>,
                                   !.xmlMaxSizeMb = limit]
     \/ \E strict \in BOOLEAN, fails \in {"xml", "txt", "validate", "upload"},
           M \in {1, DefaultMaxPerFile}, xml \in BOOLEAN, txt \in BOOLEAN :
          cfg = [DefaultCfg EXCEPT !.strictValidation = strict, !.ioFails = fails,
                                   !.maxPerFile = M, !.generateXml = xml,
                                   !.generateTxt = txt]
  /\ InitRunState

SpecPolicy == InitPolicy /\ [][Next]_vars

(***************************************************************************)
(* The run on a directory with a page in a subdirectory, the canonical     *)
(* links of the pages varied: none, a relative href, a root-relative href, *)
(* an href that climbs one directory, an absolute URL.                     *)
(***************************************************************************)
CanonicalHrefs ==
  {NoVal, fileC, <<"/">> \o fileC, <<".", ".", "/">> \o fileC, urlHome}

InitCanonical ==
  /\ \E files \in {<<fileSub>>, <<fileA, fileSub>>, <<fileA>>},
        ca \in CanonicalHrefs, cs \in CanonicalHrefs :
       site = [files |-> files,
               page |-> [f \in {fileA, fileSub} |->
                           [canonical |-> IF f = fileA THEN ca ELSE cs, anchors |-> <<>>]],
               committed |-> {}, statFails |-> {}, readFails |-> {}]
  /\ \E pcan \in BOOLEAN, M \in {1, DefaultMaxPerFile} :
       cfg = [DefaultCfg EXCEPT !.parseCanonical = pcan, !.maxPerFile = M,
                                !.lastmodStrategy = "none"]
  /\ InitRunState

SpecCanonical == InitCanonical /\ [][Next]_vars

(***************************************************************************)
(* The walk with its environment varied: source maps among the files, a    *)
(* page that links to a source map, the lastmod strategy with what git     *)
(* knows of the page, a stat or a read of the page that fails, and a site  *)
(* URL with a path.                                                        *)
(***************************************************************************)
\* a project site, as inferSiteUrl returns it (utils.js 120-122)
sProjectBase == sBase \o <<"/", "r", "/">>

WalkLists == {<<fileA>>, <<fileA, fileMap>>, <<fileMapUpper, fileA>>, <<fileA, fileB>>}

LastmodStrategies == validLastmodStrategies \cup {"bogus"}

InitWalk ==
  /\ \E files \in WalkLists, ca \in {NoVal, urlHome},
        anchors \in {<<>>, <<(<<"/">> \o fileMap)>>},
        git \in {{}, {fileA}}, fault \in {"none", "stat", "read"} :
       site = [files |-> files,
               page |-> [f \in {fileA, fileB, fileMap, fileMapUpper} |->
                           IF f = fileA THEN [canonical |-> ca, anchors |-> anchors]
                           ELSE PlainPage],
               committed |-> git,
               statFails |-> IF fault = "stat" THEN {fileA} ELSE {},
               readFails |-> IF fault = "read" THEN {fileA} ELSE {}]
  /\ \E strategy \in LastmodStrategies, base \in {sBase \o <<"/">>, sProjectBase} :
       /\ cfg = [DefaultCfg EXCEPT !.lastmodStrategy = strategy, !.siteUrl = base]
       /\ strategy # "git" => site.committed = {}
  /\ InitRunState

SpecWalk == InitWalk /\ [][Next]_vars

(***************************************************************************)
(* The chunking loop as a loop that keeps executing: run is one sequential *)
(* async function and the loop of lines 511-513 awaits nothing, so a turn  *)
(* of the loop, or its exit, is taken whenever it is possible.  The        *)
(* per-file limit and the number of URLs are varied.                       *)
(***************************************************************************)
InitChunk ==
  /\ \E files \in Prefixes : site = PlainSite(files)
  /\ \E M \in CapValues \cup {DefaultMaxPerFile}, xml \in BOOLEAN, txt \in BOOLEAN,
        manual \in {<<>>, <<urlManual>>, <<urlManual, urlHome>>} :
       cfg = [DefaultCfg EXCEPT !.maxPerFile = M, !.generateXml = xml,
                                !.generateTxt = txt, !.additionalUrls = manual]
  /\ InitRunState

SpecLive == InitChunk /\ [][Next]_vars /\ WF_vars(ChunkStep \/ ChunkDone)

SpecBuild == InitBuild /\ [][Next]_vars

SpecExclude == InitExclude /\ [][Next]_vars

(***************************************************************************)
(* The properties.                                                         *)
(***************************************************************************)
UrlsOf(its) == {its[k].url : k \in 1..Len(its)}

NoDuplicateUrls(its) == \A i, j \in 1..Len(its) : i # j => its[i].url # its[j].url

\* run returned before the chunking loop: the priority was refused, or
\* buildUrls or the pre-write loop threw
Aborted == \E k \in 1..Len(failed) : failed[k] \in {"priority", "exception"}

\* buildUrls has returned and its result is in urls
Built ==
  \/ pc \in {"prewrite", "chunk", "xml", "txt", "validate", "upload", "external", "outputs"}
  \/ pc = "done" /\ ~Aborted

\* the list is final: the pre-write filter has run
Final ==
  \/ pc \in {"chunk", "xml", "txt", "validate", "upload", "external", "outputs"}
  \/ pc = "done" /\ ~Aborted

\* C1: the list buildUrls returns, and the list run chunks and writes after
\* its pre-write filter, never holds two items with the same url.
C1_UniqueUrls == (Built \/ Final) => NoDuplicateUrls(urls)

\* C1's case: the merged items hold one URL twice and buildUrls has returned a
\* non-empty list
C1_Witness == pc = "chunk" /\ ~NoDuplicateUrls(items) /\ Len(urls) >= 2

\* the chunking loop has ended
Chunked ==
  \/ pc \in {"xml", "txt", "validate", "upload", "external", "outputs"}
  \/ pc = "done" /\ ~Aborted

RECURSIVE Concat(_)
Concat(cs) == IF cs = <<>> THEN <<>> ELSE Head(cs) \o Concat(Tail(cs))

CeilDiv(n, m) == (n + m - 1) \div m

SortedByUrl(its) ==
  \A i, j \in 1..Len(its) : i < j => (its[i].url = its[j].url \/ LocaleLess(its[i].url, its[j].url))

\* C2: with a per-file limit M >= 1 and a final list of N items, the loop
\* leaves exactly ceil(N / M) chunks, none longer than M, every chunk but the
\* last of exactly M items, and the chunks in order concatenate to the final
\* list, which is sorted by url.
C2_Chunking ==
  (Chunked /\ cfg.maxPerFile >= 1) =>
    /\ Len(chunks) = CeilDiv(Len(urls), cfg.maxPerFile)
    /\ \A k \in 1..Len(chunks) : Len(chunks[k]) <= cfg.maxPerFile
    /\ \A k \in 1..(Len(chunks) - 1) : Len(chunks[k]) = cfg.maxPerFile
    /\ Concat(chunks) = urls
    /\ SortedByUrl(urls)

\* C2's case: three items under a limit of two leave a full chunk and a short
\* last chunk
C2_Witness ==
  /\ pc = "xml"
  /\ cfg.maxPerFile = 2
  /\ Len(urls) = 3
  /\ Len(chunks) = 2
  /\ Len(chunks[2]) = 1

\* the wildcard match as the specification words it: "*" stands for any run
\* of characters, "?" for exactly one, every other character for itself
RECURSIVE GlobMatch(_, _)
GlobMatch(p, s) ==
  IF p = <<>> THEN s = <<>>
  ELSE IF Head(p) = "*"
  THEN GlobMatch(Tail(p), s) \/ (s # <<>> /\ GlobMatch(p, Tail(s)))
  ELSE s # <<>> /\ (Head(p) = "?" \/ Head(p) = Head(s)) /\ GlobMatch(Tail(p), Tail(s))

ExcludedBy(e, u) == u = e \/ (IsWildcard(e) /\ GlobMatch(e, u))

\* C3: no collected item, whatever its source, whose URL equals an exclude
\* entry or matches a wildcard entry ("*" any run of characters, "?" exactly
\* one) is in the final list that run writes.
C3_ExcludedAbsent ==
  Final =>
    \A k \in 1..Len(items), n \in 1..Len(cfg.excludeUrls) :
      ExcludedBy(cfg.excludeUrls[n], items[k].url) => ~HasUrl(urls, items[k].url)

\* the merge of the discovered items has run
Merged == pc = "collect" \/ Built

CountSrc(its, src) == Cardinality({k \in 1..Len(its) : its[k].src = src})

InternalAnchors ==
  {a \in UNION {{site.page[site.files[k]].anchors[n] :
                   n \in 1..Len(site.page[site.files[k]].anchors)} : k \in 1..Len(site.files)} :
     ~IsHttpUrl(a) /\ ~StartsWith(a, <<"#">>)}

\* the distinct URLs of the internal anchors of the walked files whose targets
\* are regular files
Discoverable ==
  {normalizePathToUrl(cfg.siteUrl, JoinRelative(StripSlash(a))) :
     a \in {b \in InternalAnchors : IsRegularFile(JoinRelative(StripSlash(b)))}}

WalkedItems == [k \in 1..Len(site.files) |-> WalkedItem(site.files[k])]

\* the walked and the manual items are the head of the collection, untouched
WalkedAndManualKept ==
  LET head == WalkedItems \o ManualItems
  IN /\ Len(items) >= Len(head)
     /\ SubSeq(items, 1, Len(head)) = head
     /\ \A k \in (Len(head) + 1)..Len(items) : items[k].src = "discovered"

C5_TotalCap ==
  Merged =>
    /\ WalkedAndManualKept
    /\ \A k \in 1..Len(items) : items[k].src = "discovered" => k - 1 < cfg.maxTotal
    /\ Len(WalkedItems \o ManualItems) <= cfg.maxTotal => Len(items) <= cfg.maxTotal

\* C5's case: the merge appended a discovered item, stopped at the total cap
\* and left a URL of the discovery set out
C5_Witness ==
  /\ pc = "collect"
  /\ Len(items) = cfg.maxTotal
  /\ CountSrc(items, "discovered") >= 1
  /\ \E k \in 1..Len(discoveredSet) : ~HasUrl(items, discoveredSet[k])

PhaseRank(src) == CASE src = "walked" -> 1 [] src = "manual" -> 2 [] OTHER -> 3

FirstIndex(its, u) == SetMin({k \in 1..Len(its) : its[k].url = u})

\* C6: the collection is in merge order (walked, then manual, then
\* discovered), and every item of the returned list is, fields included, the
\* first item of the collection with its URL, so the earliest phase wins and
\* every later duplicate is dropped.
C6_FirstWins ==
  Built =>
    /\ \A i, j \in 1..Len(items) : i < j => PhaseRank(items[i].src) <= PhaseRank(items[j].src)
    /\ \A k \in 1..Len(urls) :
         /\ HasUrl(items, urls[k].url)
         /\ urls[k] = items[FirstIndex(items, urls[k].url)]
    /\ NoDuplicateUrls(urls)

\* C6's case: a walked item with a lastmod and a manual item share a URL, and
\* the returned list holds the walked one
C6_Witness ==
  /\ pc = "prewrite"
  /\ \E i, j \in 1..Len(items) :
       /\ items[i].url = items[j].url
       /\ items[i].src = "walked" /\ items[j].src = "manual"
       /\ items[i].lastmod # NoVal
       /\ \E k \in 1..Len(urls) : urls[k] = items[i]

\* the path-derived URL of a file under the base URL of the model
PathUrl(f) == sBase \o <<"/">> \o f

ScenarioA ==
  /\ cfg.parseCanonical
  /\ cfg.additionalUrls = <<>>
  /\ site.files = <<fileA, fileB>>
  /\ site.page[fileA] = [canonical |-> urlHome, anchors |-> <<>>]
  /\ site.page[fileB] = PlainPage

LocsOf(lines) ==
  LET IsLoc(l) == l.tag = "loc"
      locs == SelectSeq(lines, IsLoc)
  IN [k \in 1..Len(locs) |-> locs[k].val]

\* C10: with canonical parsing on, every walked HTML file has pushed exactly
\* one item; its URL is the absolute href of the canonical link when there is
\* one (the path-derived URL is not added) and the path-derived URL when the
\* file has no canonical link.  A directory of a.html (canonical http://e/h)
\* and b.html (no canonical) yields exactly http://e/b.html and http://e/h, in
\* the returned list and in the written sitemap.
C10_Canonical ==
  /\ (pc \in {"walk", "merge", "collect"} /\ cfg.parseCanonical) =>
       /\ CountSrc(items, "walked") = idx - 1
       /\ \A k \in 1..(idx - 1) :
            LET f == site.files[k]
                href == site.page[f].canonical
            IN /\ items[k].src = "walked"
               /\ (href # NoVal /\ IsHttpUrl(href)) => items[k].url = href
               /\ href = NoVal => items[k].url = PathUrl(f)
  /\ (Built /\ ScenarioA) => [k \in 1..Len(urls) |-> urls[k].url] = <<urlB, urlHome>>
  /\ (pc = "done" /\ failed = <<>> /\ ScenarioA) =>
       LocsOf(fs[DEFAULT_SITEMAP_FILENAME].lines) = <<urlB, urlHome>>

\* C10's case: the run on the directory of the scenario has written its
\* sitemap
C10_Witness ==
  /\ pc = "done"
  /\ failed = <<>>
  /\ ScenarioA
  /\ DEFAULT_SITEMAP_FILENAME \in DOMAIN fs

\* the text is a number of [0.0, 1.0]
IsPriorityNumber(text) ==
  LET n == ToNumber(text)
  IN ~n.nan /\ 0 <= n.v /\ n.v <= 100

\* C7: a configured priority that is not a number, or is outside [0.0, 1.0],
\* makes run report the failure and stop before the URL collection, with no
\* item collected and no file written in that run; a configured priority
\* inside [0.0, 1.0] never triggers this failure.
C7_InvalidPriorityAborts ==
  /\ (cfg.priorityInput # NoVal /\ ~IsPriorityNumber(cfg.priorityInput) /\ pc # "start") =>
       /\ pc = "done"
       /\ failed = <<"priority">>
       /\ items = <<>>
       /\ log = <<>>
  /\ (cfg.priorityInput # NoVal /\ IsPriorityNumber(cfg.priorityInput)) =>
       \A k \in 1..Len(failed) : failed[k] # "priority"

\* the canonical file name with "-i" inserted before its extension
NumberedName(i) ==
  LET name == cfg.sitemapFilename
      dots == Positions(name, ".") \ {1}
      cut == IF dots = {} THEN Len(name) ELSE SetMax(dots) - 1
  IN SubSeq(name, 1, cut) \o <<"-">> \o NumText(i) \o Drop(name, cut)

UrlList(its) == [k \in 1..Len(its) |-> its[k].url]

\* the output directory holds under the name (letter case aside) an XML
\* sitemap of exactly these items
HoldsSitemap(name, its) ==
  \E p \in DOMAIN fs :
    /\ Lower(p) = Lower(name)
    /\ fs[p].kind = "xml"
    /\ LocsOf(fs[p].lines) = UrlList(its)

IndexWrites == {k \in 1..Len(log) : log[k].kind = "index"}

LastmodsOf(lines) ==
  LET IsLastmod(l) == l.tag = "lastmod"
      lms == SelectSeq(lines, IsLastmod)
  IN [k \in 1..Len(lms) |-> lms[k].val]

\* C8: once the XML branch has run with XML generation on: with at most one
\* chunk the list is in the file of the canonical name and no index is
\* written; with more than one chunk every chunk i is in the file named by the
\* canonical name with "-i" before the extension, and exactly one index is
\* written, with one entry per chunk in chunk order, entry i giving the URL of
\* numbered file i and the generation time as lastmod.
C8_NamesAndIndex ==
  (pc = "txt" /\ cfg.generateXml) =>
    IF Len(chunks) <= 1
    THEN /\ HoldsSitemap(cfg.sitemapFilename, urls)
         /\ IndexWrites = {}
    ELSE /\ \A i \in 1..Len(chunks) : HoldsSitemap(NumberedName(i), chunks[i])
         /\ Cardinality(IndexWrites) = 1
         /\ \A k \in IndexWrites :
              /\ Len(LocsOf(log[k].lines)) = Len(chunks)
              /\ \A i \in 1..Len(chunks) :
                   Lower(LocsOf(log[k].lines)[i]) = Lower(sBase \o <<"/">> \o NumberedName(i))
              /\ LastmodsOf(log[k].lines) = [i \in 1..Len(chunks) |-> Iso(now)]

\* the second of two runs on the same input with lastmod strategy none has
\* ended without a failure
SecondRunDone ==
  /\ runNo = 2
  /\ pc = "done"
  /\ failed = <<>>
  /\ cfg.lastmodStrategy = "none"

XmlPaths == {p \in DOMAIN fs : fs[p].kind \in {"xml", "index"}}

\* the first run left a document of the same kind and length under the name
SameShape(p) ==
  /\ p \in DOMAIN prev
  /\ prev[p].kind = fs[p].kind
  /\ Len(prev[p].lines) = Len(fs[p].lines)

DiffLines(p) == {k \in 1..Len(fs[p].lines) : fs[p].lines[k] # prev[p].lines[k]}

\* C9 as stated: every XML document of the second run is the document the
\* first run wrote under that name, line for line, except at most one line,
\* which is the generation comment.
C9_SingleLine ==
  SecondRunDone =>
    \A p \in XmlPaths :
      /\ SameShape(p)
      /\ Cardinality(DiffLines(p)) <= 1
      /\ \A k \in DiffLines(p) : fs[p].lines[k].tag = "comment"

\* C9 amended: every XML document of the second run is the document the first
\* run wrote under that name, line for line, except its generation comment
\* line and, in the sitemap index, the lastmod line of every entry; the URLs,
\* their order and their distribution over the files are the same.
C9_Deterministic ==
  SecondRunDone =>
    \A p \in XmlPaths :
      /\ SameShape(p)
      /\ Cardinality({k \in DiffLines(p) : fs[p].lines[k].tag = "comment"}) <= 1
      /\ \A k \in DiffLines(p) :
           \/ fs[p].lines[k].tag = "comment"
           \/ fs[p].kind = "index" /\ fs[p].lines[k].tag = "lastmod"
                /\ prev[p].lines[k].tag = "lastmod"
      /\ LocsOf(fs[p].lines) = LocsOf(prev[p].lines)

\* C9's case: the second run has rewritten a sitemap with a lastmod-free item
\* of a walked file and a sitemap index, and both differ from the first run's
C9_Witness ==
  /\ SecondRunDone
  /\ Len(site.files) >= 1
  /\ \E p \in XmlPaths : fs[p].kind = "index" /\ p \in DOMAIN prev /\ fs[p] # prev[p]
  /\ \E p \in XmlPaths : fs[p].kind = "xml" /\ p \in DOMAIN prev /\ fs[p] # prev[p]


HasFinding(findings, type, check) ==
  \E k \in 1..Len(findings) : findings[k].type = type /\ findings[k].check = check

\* the document breaks the rule for the values of the element: a location
\* that is not http(s) or has 2048 characters or more, a changefreq outside
\* the enumeration, a priority that is no number of [0.0, 1.0]
BreaksRule(lines, element) == CountBad(lines, element) > 0

\* C11: whichever validator has validated an XML sitemap document, each of
\* the three value violations (location, changefreq, priority) present in the
\* document has a finding of severity error under strict policy and of
\* severity warning under lenient policy.
C11_ValueViolationSeverity ==
  \A v \in DOMAIN found :
    subject.kind = "xml" =>
      \A element \in {"loc", "changefreq", "priority"} :
        BreaksRule(subject.lines, element) =>
          HasFinding(found[v], Severity(subject.strict), element)


HasType(findings, type) == \E k \in 1..Len(findings) : findings[k].type = type

\* C14: on one document under one policy, the validator of the generated
\* documents and the validator of the existing files agree: one returns an
\* error finding exactly when the other does, and one returns a warning
\* finding exactly when the other does.
C14_SameCheckSet ==
  DOMAIN found = {"generated", "external"} =>
    /\ HasType(found["generated"], "error") = HasType(found["external"], "error")
    /\ HasType(found["generated"], "warning") = HasType(found["external"], "warning")

\* the document violates the check: a root tag is missing, the namespace is
\* missing, there are more entries than the maximum, or a value breaks its rule
Violates(d, check) ==
  IF check = "structure"
  THEN IF d.kind = "xml" THEN ~HasTag(d.lines, "urlset") \/ ~HasTag(d.lines, "/urlset")
       ELSE ~HasTag(d.lines, "sitemapindex") \/ ~HasTag(d.lines, "/sitemapindex")
  ELSE IF check = "namespace" THEN ~HasNamespace(d.lines)
  ELSE IF check = "limit" THEN CountTag(d.lines, "url") > d.maxUrls
  ELSE BreaksRule(d.lines, check)

\* the checks of the kind that the validators of both families name alike
ChecksOf(kind) ==
  IF kind = "xml" THEN {"structure", "namespace", "limit", "loc", "changefreq", "priority"}
  ELSE IF kind = "index" THEN {"structure", "loc"}
  ELSE {}

\* C19: under strict policy, whichever validator has validated the document,
\* its result holds a warning or an error for every check the document
\* violates: no violated check is left without a finding because an earlier
\* check failed.
C19_EveryViolationReported ==
  \A v \in DOMAIN found :
    subject.strict =>
      \A check \in ChecksOf(subject.kind) :
        Violates(subject, check) =>
          \E k \in 1..Len(found[v]) :
            found[v][k].check = check /\ found[v][k].type \in {"warning", "error"}


\* the validation block of this run has run on the files as they stand
Validated ==
  \/ pc \in {"upload", "external", "outputs"}
  \/ pc = "done" /\ ~Aborted /\ \A k \in 1..Len(failed) : failed[k] # "write exception"

HasEntry(part, type, check) ==
  \E k \in 1..Len(report) :
    report[k].part = part /\ report[k].type = type /\ report[k].check = check

Failed(part) == \E k \in 1..Len(failed) : failed[k] = part

\* the TXT sitemap of the run was read by the validation block
TxtWasValidated ==
  /\ Validated
  /\ cfg.generateTxt
  /\ txtSitemapPath \in DOMAIN fs
  /\ ~ValidationThrows

\* C12: when the validation block has validated, under strict policy, a TXT
\* sitemap holding a non-empty line that does not start with http:// or
\* https://, validateTxtSitemap has returned an error finding for the invalid
\* URL and run has called setFailed for it.
C12_StrictTxtFails ==
  (/\ TxtWasValidated
   /\ cfg.strictValidation
   /\ CountInvalidTxt(TxtLines(fs[txtSitemapPath].lines)) > 0) =>
    /\ HasEntry("txt", "error", "url")
    /\ Failed("txt")

\* C12's case: the additional URL ftp://x is a line of the TXT sitemap that
\* the strict run has just validated
C12_Witness ==
  /\ pc = "upload"
  /\ cfg.strictValidation
  /\ txtSitemapPath \in DOMAIN fs
  /\ \E k \in 1..Len(fs[txtSitemapPath].lines) : fs[txtSitemapPath].lines[k].val = urlFtp
  /\ HasEntry("txt", "error", "url")


LacksIndexTag(lines) == ~HasTag(lines, "sitemapindex") \/ ~HasTag(lines, "/sitemapindex")

\* the existing files of validate_sitemaps have been validated
ExternalValidated == pc = "outputs" \/ (pc = "done" /\ Validated)

\* C13: a sitemap index without its opening or its closing tag gets the
\* structure finding with severity error under strict policy and warning
\* under lenient policy (and the strict run is marked failed), from
\* validateSitemapIndex for the index the run generated, from the file
\* validator for an existing file named like sitemap-index.xml, and from
\* validateSitemapIndex on every index text of the bounded space.
C13_IndexStructure ==
  /\ (Validated /\ ~ValidationThrows /\ sIndexName \in DOMAIN fs
        /\ LacksIndexTag(fs[sIndexName].lines)) =>
       /\ HasEntry("index", Severity(cfg.strictValidation), "structure")
       /\ cfg.strictValidation => Failed("index")
  /\ ExternalValidated =>
       \A k \in 1..Len(cfg.validateSitemaps) :
         LET file == cfg.validateSitemaps[k]
         IN (file.state = "file" /\ file.name = sIndexName /\ LacksIndexTag(file.lines)) =>
              /\ HasEntry("external", Severity(cfg.strictValidation), "structure")
              /\ cfg.strictValidation => Failed("external")
  /\ \A text \in IndexTexts :
       LacksIndexTag(text) =>
         HasFinding(validateSitemapIndex(text, cfg.strictValidation, cfg.maxPerFile),
                    Severity(cfg.strictValidation), "structure")

\* C13's case: the strict run has split its list, the index it wrote has lost
\* its closing tag, and the validation block has reported the error
C13_Witness ==
  /\ pc = "upload"
  /\ cfg.strictValidation
  /\ Len(chunks) > 1
  /\ sIndexName \in DOMAIN fs
  /\ HasTag(fs[sIndexName].lines, "sitemapindex")
  /\ ~HasTag(fs[sIndexName].lines, "/sitemapindex")
  /\ HasEntry("index", "error", "structure")
  /\ Failed("index")


\* the parts of run that report validation findings
ValidationParts == {"xml", "size", "txt", "index", "external", "validation"}

\* C15: with strict validation disabled, no entry of the report is an error
\* and run has made no setFailed call for a validation finding: whatever the
\* validation of the generated documents, of their sizes and of the existing
\* files finds is a warning or an info.
C15_LenientNeverFails ==
  ~cfg.strictValidation =>
    /\ \A k \in 1..Len(report) : report[k].type # "error"
    /\ \A k \in 1..Len(failed) : failed[k] \notin ValidationParts


\* the run has ended with the exception of a write
WriteFailed(artifact) ==
  /\ pc = "done"
  /\ cfg.ioFails = artifact
  /\ Failed("write exception")

Wrote(kind) == \E k \in 1..Len(log) : log[k].kind = kind

\* C16: a write failure stops its own artifact only: when the XML write has
\* failed and the TXT sitemap is enabled, the run has still written the TXT
\* sitemap; when the TXT write has failed, the run has still validated the
\* XML sitemap it wrote.
C16_WriteFailureIsLocal ==
  /\ (WriteFailed("xml") /\ cfg.generateTxt) => Wrote("txt")
  /\ (WriteFailed("txt") /\ cfg.generateXml /\ outMain \in DOMAIN fs) =>
       \E k \in 1..Len(report) : report[k].part = "xml"


\* the reports of the catch of run
CaughtReports == {"exception", "write exception"}

CaughtAt == {k \in 1..Len(failed) : failed[k] \in CaughtReports}

\* C17: no exception leaves run: the run is never in the state of a rejected
\* promise; an exception that reaches the catch of run is reported by one
\* setFailed call, the last of the run, and the run has ended; an exception
\* in the validation block or in the upload is reported as a warning, is no
\* setFailed call, and the run goes on to its end.
C17_NoEscape ==
  /\ pc # "escaped"
  /\ Cardinality(CaughtAt) <= 1
  /\ CaughtAt # {} => (pc = "done" /\ CaughtAt = {Len(failed)})
  /\ (pc = "done" /\ ~Aborted /\ (XmlWriteThrows \/ TxtWriteThrows)) =>
       Failed("write exception")
  /\ (Validated /\ ValidationThrows) =>
       /\ HasEntry("validation", "warning", "skipped")
       /\ ~Failed("validation")
  /\ (ExternalValidated /\ cfg.uploadArtifacts /\ UploadThrows) =>
       HasEntry("upload", "warning", "failed")

\* C17's case: the XML sitemap is written, the TXT write has thrown, and the
\* run has ended with the one report of its catch
C17_Witness ==
  /\ pc = "done"
  /\ TxtWriteThrows
  /\ Wrote("xml")
  /\ failed = <<"write exception">>


\* the directory of a file of the public directory, empty at its root
DirOf(f) ==
  LET segs == Segments(f)
  IN JoinSegs(SubSeq(segs, 1, Len(segs) - 1))

\* the href taken as a path from the directory of the file, as a URL
ResolvedInDir(f, href) ==
  normalizePathToUrl(cfg.siteUrl,
                     IF DirOf(f) = <<>> THEN href ELSE DirOf(f) \o <<"/">> \o href)

\* the href is a path relative to the page: neither an absolute URL nor a
\* path from the root
IsPathRelative(href) == href # NoVal /\ ~IsHttpUrl(href) /\ ~StartsWith(href, <<"/">>)

\* C18: with canonical parsing on, the item of every walked HTML file whose
\* canonical href is a relative path has the URL of that path resolved in
\* the directory of the file.
C18_RelativeCanonical ==
  \A k \in 1..Len(site.files) :
    LET f == site.files[k]
    IN (/\ k < idx
        /\ k <= Len(items)
        /\ items[k].src = "walked"
        /\ cfg.parseCanonical
        /\ ExtName(f) \in {sHtml, sHtm}
        /\ IsPathRelative(site.page[f].canonical)) =>
         items[k].url = ResolvedInDir(f, site.page[f].canonical)


\* the parts of run that validate the documents the run generated
GeneratedParts == {"xml", "size", "txt", "index", "validation"}

\* C20: every gzip write of the run comes after the write of its document
\* and compresses the content that write left; and whenever the report holds
\* a finding about a generated document, the XML branch and the TXT branch
\* have both completed: every write of the run, gzip included, is in the log
\* and the run is past its write steps.
C20_WriteBeforeGzipBeforeValidation ==
  /\ \A k \in 1..Len(log) :
       log[k].kind = "gz" =>
         \E j \in 1..(k - 1) :
           log[j].path \o sGz = log[k].path /\ log[j].lines = log[k].lines
  /\ (\E k \in 1..Len(report) : report[k].part \in GeneratedParts) =>
       /\ pc \in {"upload", "external", "outputs", "done"}
       /\ log = XmlWrites \o TxtWrites

\* C20's case: the run has written and compressed its XML parts and its
\* index, written its TXT parts, and then validated
C20_Witness ==
  /\ pc = "upload"
  /\ Len(chunks) > 1
  /\ \E k \in 1..Len(log) : log[k].kind = "gz" /\ log[k].path = sIndexName \o sGz
  /\ Wrote("txt")
  /\ \E k \in 1..Len(report) : report[k].part = "index"


\* the files the walk has gone through that are not on the skip list, in
\* order: items[k] is the item of the k-th of them
WalkedSoFar ==
  LET Kept(f) == ExtName(f) # sMap
  IN SelectSeq(SubSeq(site.files, 1, idx - 1), Kept)

\* the timestamp the strategy names for file f
StrategyTime(f) ==
  IF cfg.lastmodStrategy = "git"
  THEN IF f \in site.committed THEN <<"G">> \o NumText(Mtime(f)) ELSE Iso(Mtime(f))
  ELSE IF cfg.lastmodStrategy = "filemtime" THEN Iso(Mtime(f))
  ELSE IF cfg.lastmodStrategy = "current" THEN Iso(now)
  ELSE NoVal

\* C21: the item of every walked file whose stat succeeded carries the
\* timestamp its strategy names (git: the last-commit time when there is
\* one, else the modification time; filemtime: the modification time;
\* current: the generation time; none: no lastmod); with an unrecognized
\* strategy an error message is emitted, nothing is reported as a failure,
\* no item carries a lastmod and the run ends without being aborted.
C21_LastmodFollowsStrategy ==
  /\ \A k \in 1..Len(WalkedSoFar) :
       (k <= Len(items) /\ WalkedSoFar[k] \notin site.statFails) =>
         items[k].lastmod = StrategyTime(WalkedSoFar[k])
  /\ (cfg.lastmodStrategy \notin {"git", "filemtime", "current", "none"} /\ pc # "start") =>
       /\ \E k \in 1..Len(errors) : errors[k] = "lastmod_strategy"
       /\ failed = <<>>
       /\ \A k \in 1..Len(items) : items[k].lastmod = NoVal
       /\ \A k \in 1..Len(urls) : urls[k].lastmod = NoVal

\* C21's case: under the git strategy a run has ended with an item that
\* carries the last-commit time of its file
C21_Witness ==
  /\ pc = "done"
  /\ cfg.lastmodStrategy = "git"
  /\ fileA \in site.committed
  /\ \E k \in 1..Len(urls) : urls[k].lastmod = <<"G">> \o NumText(Mtime(fileA))


\* the stat of f fails, or f is a page to parse and its read or parse fails
FailsOnWalk(f) ==
  \/ f \in site.statFails
  \/ cfg.parseCanonical /\ ExtName(f) \in {sHtml, sHtm} /\ f \in site.readFails

\* C22: a walked file whose stat, read or parse fails still contributes its
\* item, with the URL derived from its path; during the walk there is one
\* item per file gone through that is not skipped, after the walk every file
\* has been gone through, and the failure is never reported as a failure of
\* the run.
C22_FileFailureSwallowed ==
  /\ \A k \in 1..Len(WalkedSoFar) :
       /\ k <= Len(items)
       /\ items[k].src = "walked"
       /\ FailsOnWalk(WalkedSoFar[k]) => items[k].url = PathUrl(WalkedSoFar[k])
  /\ pc = "walk" => Len(items) = Len(WalkedSoFar)
  /\ pc \notin {"start", "walk"} => idx = Len(site.files) + 1
  /\ (\E k \in 1..Len(site.files) : FailsOnWalk(site.files[k])) => failed = <<>>

\* C22's case: the first of two pages declares a canonical URL and could not
\* be read or stat'ed; the run has ended with the path-derived URL of that
\* page and the URL of the page after it
C22_Witness ==
  /\ pc = "done"
  /\ site.files = <<fileA, fileB>>
  /\ FailsOnWalk(fileA)
  /\ site.page[fileA].canonical # NoVal
  /\ HasUrl(urls, PathUrl(fileA))
  /\ HasUrl(urls, PathUrl(fileB))


\* the files of the walk that are on the skip list
SkippedFiles ==
  LET OnList(f) == ExtName(f) = sMap
  IN SelectSeq(site.files, OnList)

\* C23: no item of the collection, at any point of buildUrls and in the list
\* run writes, carries the URL of a walked file whose extension is .map (in
\* any letter case), also when a page links to that file; after the walk the
\* file is counted as skipped.
C23_SkippedNeverIncluded ==
  /\ \A k \in 1..Len(SkippedFiles) :
       /\ ~HasUrl(items, PathUrl(SkippedFiles[k]))
       /\ ~HasUrl(urls, PathUrl(SkippedFiles[k]))
  /\ pc \notin {"start", "walk"} => skippedCount = Len(SkippedFiles)


\* the URL of the item of page f when every canonical link is an absolute URL
DeclaredOrPathUrl(f) ==
  IF cfg.parseCanonical /\ site.page[f].canonical # NoVal
  THEN site.page[f].canonical
  ELSE PathUrl(f)

\* C24: in every step the discovery set stays within the cap; in a turn of
\* the walk that starts with the set at the cap the set does not change,
\* whichever file is walked; and every turn of the walk on a page moves on to
\* the next file and pushes the item of that page with its canonical URL
\* resolved, whether or not the cap has been reached.
C24_GlobalDiscoveryCap ==
  [][/\ Len(discoveredSet') <= cfg.maxDiscovered
     /\ (pc = "walk" /\ idx <= Len(site.files)) =>
          /\ Len(discoveredSet) >= cfg.maxDiscovered => discoveredSet' = discoveredSet
          /\ idx' = idx + 1
          /\ ExtName(site.files[idx]) \in {sHtml, sHtm} =>
               /\ Len(items') = Len(items) + 1
               /\ items'[Len(items')].url = DeclaredOrPathUrl(site.files[idx])]_vars

\* C24's case: the first page filled the discovery set to the cap; the
\* second page, which links to files not yet discovered, has been walked, its
\* canonical URL is on its item and the set is as the first page left it
C24_Witness ==
  /\ pc = "walk"
  /\ idx = 3
  /\ site.files = <<fileA, fileB>>
  /\ cfg.discoverLinks /\ cfg.parseCanonical
  /\ cfg.maxDiscovered = 1
  /\ discoveredSet = <<urlB>>
  /\ site.page[fileB].anchors # <<>>
  /\ Len(items) = 2
  /\ items[2].url = urlHome


\* the configured site URL, ending with "/"
BaseWithSlash ==
  IF EndsWith(cfg.siteUrl, <<"/">>) THEN cfg.siteUrl ELSE cfg.siteUrl \o <<"/">>

\* the item of page f keeps the URL derived from the path of f
KeepsPathUrl(f) ==
  \/ ~cfg.parseCanonical
  \/ ExtName(f) \notin {sHtml, sHtm}
  \/ site.page[f].canonical = NoVal
  \/ FailsOnWalk(f)

\* C25: the URL of every item that a walked file contributes from its path
\* starts with the configured site URL (with a "/" at its end), also when
\* the site URL has a path.
C25_PathUrlUnderBase ==
  \A k \in 1..Len(WalkedSoFar) :
    (k <= Len(items) /\ KeepsPathUrl(WalkedSoFar[k])) =>
      StartsWith(items[k].url, BaseWithSlash)


\* url is configured as an additional URL or declared as the canonical URL
\* of a walked page
GivenElsewhere(url) ==
  \/ \E k \in 1..Len(cfg.additionalUrls) : cfg.additionalUrls[k] = url
  \/ \E k \in 1..Len(site.files) : site.page[site.files[k]].canonical = url

\* C26: with canonical parsing on, once buildUrls has returned, the list
\* does not hold the path-derived URL of a walked page that declares a
\* canonical URL (unless that very URL is configured as an additional URL or
\* declared as a canonical URL), also when link discovery is on and another
\* page links to the file.
C26_CanonicalReplacesPathUrl ==
  Built =>
    \A k \in 1..Len(site.files) :
      LET f == site.files[k]
      IN (/\ cfg.parseCanonical
          /\ ExtName(f) \in {sHtml, sHtm}
          /\ site.page[f].canonical # NoVal
          /\ ~GivenElsewhere(PathUrl(f))) =>
           ~HasUrl(urls, PathUrl(f))


\* C27: the XML sitemap, the TXT sitemap, the numbered XML parts and the
\* numbered TXT parts that one run writes all go to different paths: no two
\* of these writes of the run have the same path, so none replaces a
\* document written earlier in the run.
C27_DistinctOutputPaths ==
  \A i \in 1..Len(log) : \A j \in 1..Len(log) :
    (i < j /\ log[i].kind \in {"xml", "txt"} /\ log[j].kind \in {"xml", "txt"}) =>
      log[i].path # log[j].path


\* C28: with XML generation on, when the run has ended, every XML sitemap
\* document the run wrote (the single file or each numbered part) has been
\* handed to validateXmlSitemap.
C28_EveryXmlValidated ==
  (pc = "done" /\ cfg.generateXml) =>
    \A k \in 1..Len(log) :
      log[k].kind = "xml" =>
        \E c \in 1..Len(handed) :
          handed[c].validator = "validateXmlSitemap" /\ handed[c].path = log[k].path


\* C29: a result of validateXmlSitemap, validateTxtSitemap or
\* validateSitemapIndex that holds the (sitemaps.org compliant) info finding
\* holds no finding of severity warning and none of severity error.
C29_CompliantMeansClean ==
  "generated" \in DOMAIN found =>
    (HasFinding(found["generated"], "info", "compliant") =>
       /\ ~HasType(found["generated"], "warning")
       /\ ~HasType(found["generated"], "error"))


\* C30: whatever the number of URLs and the per-file limit (0 included), a
\* run that has entered the chunking loop leaves it, with the chunks it has
\* made, and goes on to the write steps that lead to its end.
C30_ChunkingTerminates == (pc = "chunk") ~> (pc = "xml")

====
